---- MODULE Spec2Model ----
(***************************************************************************)
(* Conway's Game of Life (src/main.c): the cell grid, the generation step, *)
(* the mouse/keyboard handlers that change the grid, and the RLE pattern   *)
(* loader load_rle, modelled as a state machine.                           *)
(*                                                                         *)
(* The grid of the program is 30 x 27 cells (1050/35 x 945/35).  The model *)
(* keeps the code unchanged and scales the two dimensions down; every      *)
(* operator below is written against GRID_WIDTH and GRID_HEIGHT only.      *)
(*                                                                         *)
(* The audio module (src/audio_manager.c) and its music thread are         *)
(* followed by SpecAudio; the other specifications keep of it only the     *)
(* flag music_paused, which the key handlers set through it.               *)
(***************************************************************************)
EXTENDS Integers, Sequences, FiniteSets, TLC

\* ------------------------------------------------------------------------
\* Configuration (main.c:26-30)
\* ------------------------------------------------------------------------

\* Size of each grid tile in pixels.
TILE_SIZE == 35

\* Number of tiles horizontally (30 in the program; scaled down).
GRID_WIDTH == 4

\* Number of tiles vertically (27 in the program; scaled down).
GRID_HEIGHT == 3

\* Window size in pixels.  The program fixes the window and derives the grid
\* from it (GRID_WIDTH = WINDOW_WIDTH / TILE_SIZE, exact: 1050 = 30 * 35);
\* the model fixes the grid and derives the window, keeping the same relation.
WINDOW_WIDTH == GRID_WIDTH * TILE_SIZE
WINDOW_HEIGHT == GRID_HEIGHT * TILE_SIZE

Rows == 0 .. (GRID_HEIGHT - 1)
Cols == 0 .. (GRID_WIDTH - 1)

\* The values of an int grid[GRID_HEIGHT][GRID_WIDTH]: grid[y][x].
EmptyGrid == [y \in Rows |-> [x \in Cols |-> 0]]

\* C truth value of a comparison, as stored into an int.
BoolInt(b) == IF b THEN 1 ELSE 0

InGrid(x, y) == x >= 0 /\ x < GRID_WIDTH /\ y >= 0 /\ y < GRID_HEIGHT

\* The set of live cells of a grid, as <<x, y>> pairs.
Live(g) == {c \in Cols \X Rows : g[c[2]][c[1]] # 0}

\* The grid whose live cells are exactly the in-grid cells of S.
GridOf(S) == [y \in Rows |-> [x \in Cols |-> BoolInt(<<x, y>> \in S)]]

\* ------------------------------------------------------------------------
\* count_neighbours (main.c:323-335)
\* ------------------------------------------------------------------------

\* Inner loop: for (dx = -1; dx <= 1; dx++), with its two `continue`s.
RECURSIVE count_dx(_, _, _, _, _)
count_dx(g, y, x, dy, dx) ==
    IF dx > 1 THEN 0
    ELSE (IF x + dx < 0 \/ x + dx >= GRID_WIDTH THEN 0
          ELSE IF dx = 0 /\ dy = 0 THEN 0
          ELSE g[y + dy][x + dx])
         + count_dx(g, y, x, dy, dx + 1)

\* Outer loop: for (dy = -1; dy <= 1; dy++), with its `continue`.
RECURSIVE count_dy(_, _, _, _)
count_dy(g, y, x, dy) ==
    IF dy > 1 THEN 0
    ELSE (IF y + dy < 0 \/ y + dy >= GRID_HEIGHT THEN 0
          ELSE count_dx(g, y, x, dy, -1))
         + count_dy(g, y, x, dy + 1)

\* A plausible bug: the neighbourhood wraps around the edges (toroidal grid).
count_neighbours_wrap(g, y, x) ==
    LET wy(d) == (y + d + GRID_HEIGHT) % GRID_HEIGHT
        wx(d) == (x + d + GRID_WIDTH) % GRID_WIDTH
        term(dy, dx) == IF dx = 0 /\ dy = 0 THEN 0 ELSE g[wy(dy)][wx(dx)]
        row(dy) == term(dy, -1) + term(dy, 0) + term(dy, 1)
    IN  row(-1) + row(0) + row(1)

\* A plausible bug: the `dx == 0 && dy == 0` test is missing, so a live cell
\* counts itself.
count_neighbours_with_self(g, y, x) == count_dy(g, y, x, -1) + g[y][x]

count_neighbours(g, y, x) == count_dy(g, y, x, -1)

\* ------------------------------------------------------------------------
\* update_grid (main.c:342-360)
\* ------------------------------------------------------------------------

\* A plausible bug: survival tests `neighbours == 2` only.
next_cell_survive_on_2(g, y, x) ==
    LET neighbours == count_neighbours(g, y, x)
    IN  IF g[y][x] # 0
        THEN BoolInt(neighbours = 2)
        ELSE BoolInt(neighbours = 3)

\* One cell of the first loop nest: the value stored into next_grid[y][x].
next_cell(g, y, x) ==
    LET neighbours == count_neighbours(g, y, x)
    IN  IF g[y][x] # 0
        THEN BoolInt(neighbours = 2 \/ neighbours = 3)
        ELSE BoolInt(neighbours = 3)

\* First loop nest, cell i onwards in row-major order (y outer, x inner):
\* reads g (the grid), writes ng (next_grid).
RECURSIVE fill_next(_, _, _)
fill_next(g, ng, i) ==
    IF i >= GRID_WIDTH * GRID_HEIGHT THEN ng
    ELSE LET y == i \div GRID_WIDTH
             x == i % GRID_WIDTH
         IN  fill_next(g, [ng EXCEPT ![y][x] = next_cell(g, y, x)], i + 1)

\* A plausible bug: no second buffer, every cell is rewritten in place, so a
\* cell's new state is counted by the cells that follow it.
RECURSIVE fill_in_place(_, _)
fill_in_place(g, i) ==
    IF i >= GRID_WIDTH * GRID_HEIGHT THEN g
    ELSE LET y == i \div GRID_WIDTH
             x == i % GRID_WIDTH
         IN  fill_in_place([g EXCEPT ![y][x] = next_cell(g, y, x)], i + 1)

next_generation_in_place(g, ng) == fill_in_place(g, 0)

\* The contents of next_grid after the first loop nest.
next_generation(g, ng) == fill_next(g, ng, 0)

\* ------------------------------------------------------------------------
\* clear_screen (main.c:367-373)
\* ------------------------------------------------------------------------

\* A plausible bug: the loops stop one row short (y < GRID_HEIGHT - 1).
clear_screen_short(g) ==
    [y \in Rows |-> [x \in Cols |-> IF y < GRID_HEIGHT - 1 THEN 0 ELSE g[y][x]]]

\* The grid after clear_screen(): every cell of g set to 0.
clear_screen(g) == [y \in Rows |-> [x \in Cols |-> 0]]

\* ------------------------------------------------------------------------
\* load_rle (main.c:388-466): the functions of one line and one character
\* ------------------------------------------------------------------------

\* isspace() in the "C" locale.
IsSpace(c) == c \in {" ", "\t", "\n", "\r", "\f"}

\* isdigit() and the value *p - '0'.
DigitChars == <<"0", "1", "2", "3", "4", "5", "6", "7", "8", "9">>
IsDigit(c) == \E d \in 1 .. 10 : DigitChars[d] = c
DigitVal(c) == (CHOOSE d \in 1 .. 10 : DigitChars[d] = c) - 1

\* while (isspace(*p)) p++ : the index of the first character of l at or
\* after i that is not white space, Len(l) + 1 when there is none.
RECURSIVE skip_space(_, _)
skip_space(l, i) ==
    IF i <= Len(l) /\ IsSpace(l[i]) THEN skip_space(l, i + 1) ELSE i

\* strstr(p, c) != NULL for a one-character string c, p at index q of l.
has_char(l, q, c) == \E i \in q .. Len(l) : l[i] = c

\* A plausible bug: the test for comment lines is missing.
is_comment_never(l) == FALSE

\* if (*p == '#') continue;  (main.c:404)
is_comment(l) ==
    LET q == skip_space(l, 1) IN q <= Len(l) /\ l[q] = "#"

\* if (strstr(p, "x") && strstr(p, "=") && strstr(p, "y"))  (main.c:406),
\* reached only for a line that is no comment.  The two sscanf calls that
\* follow store into pattern_w and pattern_h, which nothing reads.
is_header(l) ==
    LET q == skip_space(l, 1)
    IN  has_char(l, q, "x") /\ has_char(l, q, "=") /\ has_char(l, q, "y")

\* F(v), with v worked out once however often F uses it.
With(v, F(_)) == CHOOSE r \in {F(x) : x \in {v}} : TRUE

\* The digits %d reads from index i of l on, added to the value v.
RECURSIVE scan_digits(_, _, _)
scan_digits(l, i, v) ==
    IF i <= Len(l) /\ IsDigit(l[i])
    THEN scan_digits(l, i + 1, v * 10 + DigitVal(l[i]))
    ELSE [val |-> v, next |-> i]

\* The conversion %d of sscanf at index i of l: white space is skipped, then
\* an optional sign and at least one decimal digit are read.
scan_int(l, i) ==
    LET j == skip_space(l, i)
        signed == j <= Len(l) /\ l[j] \in {"+", "-"}
        k == IF signed THEN j + 1 ELSE j
        d == scan_digits(l, k, 0)
    IN  [ok |-> d.next > k,
         val |-> IF signed /\ l[j] = "-" THEN -d.val ELSE d.val,
         next |-> d.next]

\* A character c of the format that is not white space, at index i of l
\* (0: the scan has already failed): the index after it, 0 if l has another
\* character there.  White space in the format skips any white space in l.
scan_lit(l, i, c) ==
    IF i > 0 /\ skip_space(l, i) <= Len(l) /\ l[skip_space(l, i)] = c
    THEN skip_space(l, i) + 1 ELSE 0

\* sscanf(p, "x = %d, y = %d", &pattern_w, &pattern_h) with p at index q of
\* l and the two ints holding w0 and h0: the number n of items stored and
\* the values the two ints hold afterwards.
sscanf_dims(l, q, w0, h0) ==
    LET none == [ok |-> FALSE, val |-> 0, next |-> 0]
    IN  With(scan_lit(l, IF q <= Len(l) /\ l[q] = "x" THEN q + 1 ELSE 0, "="),
        LAMBDA eq1 :
        With(IF eq1 = 0 THEN none ELSE scan_int(l, eq1),
        LAMBDA n1 :
        With(IF n1.ok /\ n1.next <= Len(l) /\ l[n1.next] = ","
             THEN n1.next + 1 ELSE 0,
        LAMBDA n1end :
        With(scan_lit(l, scan_lit(l, n1end, "y"), "="),
        LAMBDA eq2 :
        With(IF eq2 = 0 THEN none ELSE scan_int(l, eq2),
        LAMBDA n2 :
            [n |-> IF n2.ok THEN 2 ELSE IF n1.ok THEN 1 ELSE 0,
             w |-> IF n1.ok THEN n1.val ELSE w0,
             h |-> IF n2.ok THEN n2.val ELSE h0])))))

\* if (sscanf(...) < 2) { sscanf(...); }  (main.c:408-411): the same scan of
\* the same text a second time when the first stored fewer than two items.
scan_header(l, w0, h0) ==
    LET q == skip_space(l, 1)
        r == sscanf_dims(l, q, w0, h0)
    IN  IF r.n < 2 THEN sscanf_dims(l, q, r.w, r.h) ELSE r

\* The decode pass works on st = [grid, cur_x, cur_y, run, done].

\* A plausible bug: the bounds test is made on the flat index only, so a
\* cell past the right edge lands at the start of the next row.
RECURSIVE live_run_wrapping(_, _, _, _)
live_run_wrapping(st, ox, oy, i) ==
    IF i >= st.run THEN st
    ELSE LET idx == (oy + st.cur_y) * GRID_WIDTH + (ox + st.cur_x)
             ok == idx >= 0 /\ idx < GRID_WIDTH * GRID_HEIGHT
         IN  live_run_wrapping(
                 [st EXCEPT !.grid = IF ok
                                     THEN [@ EXCEPT ![idx \div GRID_WIDTH][idx % GRID_WIDTH] = 1]
                                     ELSE @,
                            !.cur_x = @ + 1],
                 ox, oy, i + 1)

\* for (int i = 0; i < run; i++) { ... cur_x++; }  (main.c:436-445), from
\* iteration i on.
RECURSIVE live_run(_, _, _, _)
live_run(st0, ox, oy, i) ==
    With(st0, LAMBDA st :
        IF i >= st.run THEN st
        ELSE LET gx == ox + st.cur_x
                 gy == oy + st.cur_y
             IN  live_run(
                     [st EXCEPT !.grid = IF gx >= 0 /\ gx < GRID_WIDTH
                                            /\ gy >= 0 /\ gy < GRID_HEIGHT
                                         THEN [@ EXCEPT ![gy][gx] = 1]
                                         ELSE @,
                                !.cur_x = @ + 1],
                     ox, oy, i + 1))

\* A plausible bug: a token without a count is taken with count 0.
default_run_missing(st) == st

\* if (run == 0) run = 1;
default_run(st) == IF st.run = 0 THEN [st EXCEPT !.run = 1] ELSE st

\* A plausible bug: '!' only leaves the inner loop (`break` without
\* `done = true`), so the next line is decoded.
end_of_pattern_break_only(st) == st

\* else if (*p == '!') { done = true; break; }  (main.c:455-458)
end_of_pattern(st) == [st EXCEPT !.done = TRUE]

\* A plausible bug: '$' moves to the next row but keeps the column.
decode_char_row_keeps_column(st, c, ox, oy) ==
    IF IsDigit(c) THEN [st EXCEPT !.run = @ * 10 + DigitVal(c)]
    ELSE IF c \in {"o", "O"}
         THEN [live_run(default_run(st), ox, oy, 0) EXCEPT !.run = 0]
    ELSE IF c \in {"b", "."}
         THEN [default_run(st) EXCEPT !.cur_x = @ + default_run(st).run, !.run = 0]
    ELSE IF c = "$"
         THEN [default_run(st) EXCEPT !.cur_y = @ + default_run(st).run, !.run = 0]
    ELSE IF c = "!" THEN end_of_pattern(st)
    ELSE st

\* A plausible bug: a dead-cell run writes its cells, as a live run does,
\* with the value 0.
RECURSIVE dead_run_writing(_, _, _, _)
dead_run_writing(st, ox, oy, i) ==
    IF i >= st.run THEN st
    ELSE LET gx == ox + st.cur_x
             gy == oy + st.cur_y
         IN  dead_run_writing(
                 [st EXCEPT !.grid = IF gx >= 0 /\ gx < GRID_WIDTH
                                        /\ gy >= 0 /\ gy < GRID_HEIGHT
                                     THEN [@ EXCEPT ![gy][gx] = 0]
                                     ELSE @,
                            !.cur_x = @ + 1],
                 ox, oy, i + 1)

decode_char_dead_run_writes(st, c, ox, oy) ==
    IF IsDigit(c) THEN [st EXCEPT !.run = @ * 10 + DigitVal(c)]
    ELSE IF c \in {"o", "O"}
         THEN [live_run(default_run(st), ox, oy, 0) EXCEPT !.run = 0]
    ELSE IF c \in {"b", "."}
         THEN [dead_run_writing(default_run(st), ox, oy, 0) EXCEPT !.run = 0]
    ELSE IF c = "$"
         THEN [default_run(st) EXCEPT !.cur_y = @ + default_run(st).run,
                                      !.cur_x = 0, !.run = 0]
    ELSE IF c = "!" THEN end_of_pattern(st)
    ELSE st

\* A plausible bug: a character that is neither a digit nor a token drops
\* the pending count, so "2\n$" skips one row instead of two.
decode_char_other_resets_run(st, c, ox, oy) ==
    IF IsDigit(c) THEN [st EXCEPT !.run = @ * 10 + DigitVal(c)]
    ELSE IF c \in {"o", "O"}
         THEN [live_run(default_run(st), ox, oy, 0) EXCEPT !.run = 0]
    ELSE IF c \in {"b", "."}
         THEN [default_run(st) EXCEPT !.cur_x = @ + default_run(st).run, !.run = 0]
    ELSE IF c = "$"
         THEN [default_run(st) EXCEPT !.cur_y = @ + default_run(st).run,
                                      !.cur_x = 0, !.run = 0]
    ELSE IF c = "!" THEN end_of_pattern(st)
    ELSE [st EXCEPT !.run = 0]

\* One iteration of while (*p) for the character c (main.c:432-458).
decode_char(st, c, ox, oy) ==
    IF IsDigit(c) THEN [st EXCEPT !.run = @ * 10 + DigitVal(c)]
    ELSE IF c \in {"o", "O"}
         THEN [live_run(default_run(st), ox, oy, 0) EXCEPT !.run = 0]
    ELSE IF c \in {"b", "."}
         THEN [default_run(st) EXCEPT !.cur_x = @ + default_run(st).run, !.run = 0]
    ELSE IF c = "$"
         THEN [default_run(st) EXCEPT !.cur_y = @ + default_run(st).run,
                                      !.cur_x = 0, !.run = 0]
    ELSE IF c = "!" THEN end_of_pattern(st)
    ELSE st

\* ------------------------------------------------------------------------
\* Pattern files
\* ------------------------------------------------------------------------
\* A text file is the sequence of the lines fgets returns from it, each a
\* sequence of characters that ends with "\n" unless it is the last line of
\* a file that does not end with a line break.  Every line is shorter than
\* the 1024-byte buffer of load_rle, so fgets never splits one.

\* "x = 3, y = 3" and, on the next line, "bo$2bo$3o!": a glider.
GliderText ==
    << <<"x", " ", "=", " ", "3", ",", " ", "y", " ", "=", " ", "3", "\n">>,
       <<"b", "o", "$", "2", "b", "o", "$", "3", "o", "!">> >>

\* The glider under a header that declares a 1x1 pattern, under one whose
\* height does not parse, and under one without numbers.
GliderSmallText ==
    << <<"x", " ", "=", " ", "1", ",", " ", "y", " ", "=", " ", "1", "\n">>,
       GliderText[2] >>

GliderHalfText ==
    << <<"x", "=", "2", ",", "y", "=", "?", "\n">>, GliderText[2] >>

GliderBareText ==
    << <<"x", "=", "y", "\n">>, GliderText[2] >>

\* A comment that contains x, = and y, an indented comment, a data line
\* before the header, the header, and text after the '!' on its line and on
\* the line after it.
BlinkerText ==
    << <<"#", "C", " ", "x", " ", "=", " ", "y", "\n">>,
       <<" ", " ", "#", "N", " ", "o", "\n">>,
       <<"2", "o", "$", "\n">>,
       <<"x", " ", "=", " ", "3", ",", " ", "y", " ", "=", " ", "1", "\n">>,
       <<"3", "o", "!", "o", "\n">>,
       <<"$", "2", "o", "\n">> >>

\* No header line: a line starting with '#', a two-digit count running past
\* the right edge, a count separated from its token by a line break, and no
\* '!' before the end of the file.
NoHeaderText ==
    << <<"#", "o", "\n">>,
       <<"2", "b", "\n">>,
       <<"o", "$", "1", "2", "o", "\n">>,
       <<"2", "\n">>,
       <<"$", ".", "O">> >>

\* fopen(filename, "r") fails: there is no such file.
NoFile == << <<"NoFile">> >>

\* The files on disk.  The three paths are those game_events passes to
\* customize_preloaded_pattern (main.c:1057-1063); their contents belong to
\* the installation, not to the program: here the gun is not installed.
FILES == {"patterns/glider.rle", "patterns/blinker.rle",
          "patterns/gosper_glider_gun.rle", "patterns/no_header.rle",
          "patterns/glider_small.rle", "patterns/glider_half.rle",
          "patterns/glider_bare.rle"}

Content(fn) ==
    CASE fn = "patterns/glider.rle" -> GliderText
      [] fn = "patterns/blinker.rle" -> BlinkerText
      [] fn = "patterns/no_header.rle" -> NoHeaderText
      [] fn = "patterns/glider_small.rle" -> GliderSmallText
      [] fn = "patterns/glider_half.rle" -> GliderHalfText
      [] fn = "patterns/glider_bare.rle" -> GliderBareText
      [] OTHER -> NoFile

\* ------------------------------------------------------------------------
\* load_rle (main.c:388-466), the whole call
\* ------------------------------------------------------------------------

\* The header loop from the line after the n-th (main.c:400-413): whether a
\* header was found, and how many lines were read when the loop was left.
RECURSIVE header_pass(_, _)
header_pass(file, n) ==
    IF n >= Len(file) THEN [found |-> FALSE, fpos |-> n]
    ELSE IF is_comment(file[n + 1]) THEN header_pass(file, n + 1)
    ELSE IF is_header(file[n + 1]) THEN [found |-> TRUE, fpos |-> n + 1]
    ELSE header_pass(file, n + 1)

\* while (*p) over the line l from index i; '!' leaves the loop.
RECURSIVE decode_line(_, _, _, _, _)
decode_line(st, l, i, ox, oy) ==
    IF i > Len(l) THEN st
    ELSE IF l[i] = "!" THEN decode_char(st, l[i], ox, oy)
    ELSE decode_line(decode_char(st, l[i], ox, oy), l, i + 1, ox, oy)

\* while (!done && fgets(...)) from the line after the n-th.
RECURSIVE decode_pass(_, _, _, _, _)
decode_pass(st, file, n, ox, oy) ==
    IF st.done \/ n >= Len(file) THEN st
    ELSE decode_pass(decode_line(st, file[n + 1], 1, ox, oy), file, n + 1, ox, oy)

\* What load_rle does once the file is open (main.c:395-464).
load_opened(g, fn, oy, ox, cb) ==
    LET h == header_pass(Content(fn), 0)
        start == IF h.found THEN h.fpos ELSE 0
        st0 == [grid |-> IF cb THEN clear_screen(g) ELSE g,
                cur_x |-> 0, cur_y |-> 0, run |-> 0, done |-> FALSE]
    IN  [grid |-> decode_pass(st0, Content(fn), start, ox, oy).grid,
         msg |-> "stdout", ret |-> "void"]

\* A plausible bug: a failed fopen returns without printing anything.
load_rle_silent(g, fn, oy, ox, cb) ==
    IF Content(fn) = NoFile THEN [grid |-> g, msg |-> "", ret |-> "void"]
    ELSE load_opened(g, fn, oy, ox, cb)

\* load_rle(filename, offset_y, offset_x, clear_before) entered with the
\* grid g: the grid it leaves, the stream it prints its message to and what
\* it returns, which is nothing: void load_rle(...).
load_rle(g, fn, oy, ox, cb) ==
    IF Content(fn) = NoFile THEN [grid |-> g, msg |-> "stderr", ret |-> "void"]
    ELSE load_opened(g, fn, oy, ox, cb)

\* ------------------------------------------------------------------------
\* State
\* ------------------------------------------------------------------------

VARIABLES
    grid,          \* int grid[GRID_HEIGHT][GRID_WIDTH]          (main.c:39)
    next_grid,     \* int next_grid[GRID_HEIGHT][GRID_WIDTH]     (main.c:40)
    is_playing,    \* struct Game.is_playing                     (main.c:66)
    pc,            \* where the main thread is: "idle" (between two handlers
                   \* of game_events) or inside load_rle: "header", "parse",
                   \* "decode" (outer loop test), "char" (inner loop test)
    filename,      \* load_rle: parameter
    offset_x,      \* load_rle: parameter
    offset_y,      \* load_rle: parameter
    clear_before,  \* load_rle: parameter
    fpos,          \* load_rle: FILE *f, as the number of lines read so far
    line,          \* load_rle: char line[1024], the line fgets stored last
    pattern_w,     \* load_rle: local, -1 until a header declares a width
    pattern_h,     \* load_rle: local, -1 until a header declares a height
    p,             \* load_rle: char *p, as a 1-based index into line
    header_found,  \* load_rle: local
    cur_x,         \* load_rle: local
    cur_y,         \* load_rle: local
    run,           \* load_rle: local
    done,          \* load_rle: local
    \* Observation only: nothing below is read by the program.
    op,            \* the operation entered last, with its arguments
    pre,           \* the grid when that operation was entered
    origin,        \* the grid before the current series of update_grid calls
    gen,           \* the number of update_grid calls in that series
    oob,           \* whether that operation indexed grid outside its bounds
    consumed,      \* the characters the decode pass of load_rle has examined
    msg,           \* what load_rle printed last: "" | "stderr" | "stdout"
    ret,           \* what load_rle handed back to its caller last: "none"
                   \* before any call; the function is declared void
    nev,           \* the number of input events handled so far
    seen,          \* the grid as game_draw drew it last
    updated,       \* whether game_run called update_grid in this iteration
    \* The main loop and the audio module.
    is_running,    \* struct Game.is_running                     (main.c:65)
    update_freq,   \* struct Game.update_freq                    (main.c:67)
    count,         \* game_run: local frame counter              (main.c:1192)
    upos,          \* update_grid as called by game_run: the number of
                   \* cells its current loop nest has done
    music_paused,  \* static bool music_paused          (audio_manager.c:27)
    \* The options window of customize_preloaded_pattern.
    opts,          \* struct PatternOptions opts                 (main.c:853)
    shown,         \* the options as the window rendered them last
    applied,       \* whether a click on the Apply button was handled
    \* Observation only.
    frames,        \* game_run: the number of loop iterations begun since the
                   \* last update_grid call of the loop, -1 before the first
                   \* one, when is_playing or update_freq has changed since
                   \* and while the simulation is paused
    \* The audio module (src/audio_manager.c).  A pointer is 0 for NULL and
    \* otherwise the number of the thread, stream or buffer it points to.
    music_thread,          \* static SDL_Thread *music_thread           (:25)
    music_thread_running,  \* static bool music_thread_running          (:26)
    music_stream,          \* static SDL_AudioStream *music_stream      (:29)
    sfx_stream,            \* static SDL_AudioStream *sfx_stream        (:30)
    music_buffer,          \* static Uint8 *music_buffer, as whether it
                           \* points to an allocated buffer             (:32)
    current_music_file,    \* static const char *current_music_file,
                           \* "" for NULL                               (:34)
    \* What SDL keeps for the audio module.
    tpc,           \* for each thread SDL_CreateThread has made, where it is
                   \* in music_loop_thread: "test" (:43), "check" (:45),
                   \* "load" (:51), "delay" (:60), "returned" (:62), and
                   \* "joined" once SDL_WaitThread has collected it
    streams,       \* for each stream SDL_OpenAudioDeviceStream has made:
                   \* whether it is still open, whether its device is
                   \* paused, and how many buffers are queued on it
    wavs,          \* the files SDL_LoadWAV can load
    \* Observation only.
    sfx_queued,    \* whether the last play_sfx call put data on an open stream
    requeued,      \* whether music_loop_thread has put the music on an open
                   \* stream again
    misuse         \* what the audio module has done with a destroyed stream:
                   \* "thread_use" (music_loop_thread passed it to SDL),
                   \* "main_use" (the main thread did), "double_destroy",
                   \* "destroy_under_thread" (a stream was destroyed while a
                   \* music thread was neither finished nor joined)

gridVars == <<grid, next_grid, is_playing>>
loadVars == <<filename, offset_x, offset_y, clear_before, fpos, line, p,
              pattern_w, pattern_h, header_found, cur_x, cur_y, run, done>>
obsVars == <<op, pre, origin, gen, oob, consumed, msg, ret, nev>>
runVars == <<is_running, update_freq, count, upos, seen, updated>>
optVars == <<opts, shown, applied>>
audioVars == <<music_thread, music_thread_running, music_stream, sfx_stream,
               music_buffer, current_music_file, tpc, streams, wavs,
               sfx_queued, requeued, misuse>>
auxVars == <<optVars, frames, audioVars>>
vars == <<gridVars, pc, loadVars, obsVars, runVars, music_paused, auxVars>>

\* The longest series of update_grid calls the model follows.
MaxGen == 3

\* load_rle's parameters and locals while load_rle is not running.
NoLoad ==
    /\ filename = "" /\ offset_x = 0 /\ offset_y = 0 /\ clear_before = FALSE
    /\ fpos = 0 /\ line = <<>> /\ p = 1 /\ header_found = FALSE
    /\ pattern_w = -1 /\ pattern_h = -1
    /\ cur_x = 0 /\ cur_y = 0 /\ run = 0 /\ done = FALSE

\* struct PatternOptions opts = {0, 0, false, false};  (main.c:853)
NoOptions ==
    [offset_x |-> 0, offset_y |-> 0, clear |-> FALSE, confirmed |-> FALSE]

\* The sound files of the program (main.c:262, 1035, 1039, 1044, 1083; one
\* effect stands for the four) and a path that names no file.
WavFiles == {"assets/background.wav", "assets/toggle.wav"}

WavPaths == WavFiles \cup {"assets/missing.wav"}

\* The statics of audio_manager.c as their initialisers leave them
\* (audio_manager.c:25-34), before any thread or stream exists.
NoAudio ==
    /\ music_thread = 0 /\ music_thread_running = FALSE
    /\ music_stream = 0 /\ sfx_stream = 0
    /\ music_buffer = FALSE /\ current_music_file = ""
    /\ tpc = <<>> /\ streams = <<>> /\ wavs = WavFiles
    /\ sfx_queued = FALSE /\ requeued = FALSE /\ misuse = {}

\* The variables of the options window while it is not open, and the audio
\* module before its first call.
NoAux ==
    /\ opts = NoOptions /\ shown = <<>> /\ applied = FALSE /\ frames = -1
    /\ NoAudio

\* What game_new leaves in the fields of struct Game (main.c:268-270), the
\* counter of game_run before its first iteration, and music_paused as
\* play_background_music leaves it, whether it succeeds or fails
\* (audio_manager.c:27, 180).
NoRun ==
    /\ is_running = TRUE /\ update_freq = 60 /\ count = 0 /\ upos = 0
    /\ seen = <<>> /\ updated = FALSE
    /\ music_paused = FALSE
    /\ NoAux

\* The state after game_new (main.c:252-276) with the grid g0: the program
\* starts with the all-zero grid; the specifications of single functions
\* start from the grids that clicks can have produced.
InitWith(g0) ==
    /\ grid = g0
    /\ next_grid = EmptyGrid
    /\ is_playing = TRUE
    /\ pc = "idle"
    /\ NoLoad
    /\ op = <<"init">> /\ pre = g0 /\ origin = g0 /\ gen = 0
    /\ oob = FALSE /\ consumed = <<>> /\ msg = "" /\ ret = "none" /\ nev = 0
    /\ NoRun

\* Second loop nest of update_grid: grid[y][x] = next_grid[y][x].
copy_grid(ng) == [y \in Rows |-> [x \in Cols |-> ng[y][x]]]

\* update_grid(), the whole call.
update_grid ==
    /\ next_grid' = next_generation(grid, next_grid)
    /\ grid' = copy_grid(next_grid')
    /\ op' = <<"update_grid">>
    /\ pre' = grid
    /\ origin' = IF gen = 0 THEN grid ELSE origin
    /\ gen' = gen + 1
    /\ oob' = FALSE /\ consumed' = <<>>

\* ------------------------------------------------------------------------
\* SpecStep: update_grid and count_neighbours as functions of the grid
\* ------------------------------------------------------------------------

\* The 3x3 neighbourhood of (cx, cy), clipped to the grid.
Window(cx, cy) == {c \in Cols \X Rows : c[1] \in (cx - 1) .. (cx + 1)
                                        /\ c[2] \in (cy - 1) .. (cy + 1)}

\* Every grid whose live cells all lie in one 3x3 neighbourhood.  The rule
\* of update_grid reads nothing beyond a cell's neighbourhood, so these grids
\* show every configuration a cell and its neighbours can be in, at every
\* position of the grid, edges and corners included.
WindowGrids == {GridOf(S) : S \in UNION {SUBSET Window(c[1], c[2]) : c \in Cols \X Rows}}

InitStep == \E g0 \in WindowGrids : InitWith(g0)

StepUpdate ==
    /\ pc = "idle" /\ gen < MaxGen
    /\ update_grid
    /\ UNCHANGED <<is_playing, pc, loadVars, msg, ret, nev>>
    /\ UNCHANGED <<runVars, music_paused>>
    /\ UNCHANGED auxVars

NextStep == StepUpdate

SpecStep == InitStep /\ [][NextStep]_vars

\* ------------------------------------------------------------------------
\* load_rle (main.c:388-466), step by step
\* ------------------------------------------------------------------------

\* The locals of the decode pass as the record decode_char works on.
DecodeState ==
    [grid |-> grid, cur_x |-> cur_x, cur_y |-> cur_y, run |-> run, done |-> done]

\* A plausible bug: the grid is cleared before the file is known to open.
LoadOpen_clear_first ==
    /\ pc = "entry"
    /\ grid' = IF clear_before THEN clear_screen(grid) ELSE grid
    /\ IF Content(filename) = NoFile
       THEN msg' = "stderr" /\ ret' = "void" /\ pc' = "idle"
       ELSE msg' = msg /\ ret' = ret /\ pc' = "header"
    /\ UNCHANGED <<next_grid, is_playing, loadVars, op, pre, origin, gen, oob,
                   consumed, nev>>
    /\ UNCHANGED <<runVars, music_paused>>
    /\ UNCHANGED auxVars

\* FILE *f = fopen(filename, "r"); if (!f) { fprintf(stderr, ...); return; }
\* The locals of load_rle are declared further down; the model gives them
\* their values when the code initialises them.
LoadOpen ==
    /\ pc = "entry"
    /\ IF Content(filename) = NoFile
       THEN /\ msg' = "stderr"
            /\ ret' = "void"
            /\ pc' = "idle"
       ELSE /\ msg' = msg
            /\ ret' = ret
            /\ pc' = "header"
    /\ UNCHANGED <<gridVars, loadVars, op, pre, origin, gen, oob, consumed, nev>>
    /\ UNCHANGED <<runVars, music_paused>>
    /\ UNCHANGED auxVars

\* One iteration of the header loop, while (fgets(line, sizeof(line), f)),
\* or its exit at the end of the file (main.c:400-413).
LoadHeaderLine ==
    /\ pc = "header"
    /\ IF fpos < Len(Content(filename))
       THEN \E l \in {Content(filename)[fpos + 1]} :
            \E found \in {~is_comment(l) /\ is_header(l)} :
            \E dims \in {IF found THEN scan_header(l, pattern_w, pattern_h)
                                   ELSE [n |-> 0, w |-> pattern_w, h |-> pattern_h]} :
                /\ line' = l
                /\ fpos' = fpos + 1
                /\ header_found' = found
                /\ pattern_w' = IF found THEN dims.w ELSE pattern_w
                /\ pattern_h' = IF found THEN dims.h ELSE pattern_h
                /\ pc' = IF found THEN "parse" ELSE "header"
       ELSE /\ pc' = "parse"
            /\ UNCHANGED <<line, fpos, header_found, pattern_w, pattern_h>>
    /\ UNCHANGED <<gridVars, filename, offset_x, offset_y, clear_before, p,
                   cur_x, cur_y, run, done, obsVars>>
    /\ UNCHANGED <<runVars, music_paused>>
    /\ UNCHANGED auxVars

\* A plausible bug: the stream is not rewound when no header was found, so
\* the decode pass starts at the end of the file.
LoadBeginDecode_no_rewind ==
    /\ pc = "parse"
    /\ grid' = IF clear_before THEN clear_screen(grid) ELSE grid
    /\ cur_x' = 0 /\ cur_y' = 0 /\ run' = 0 /\ done' = FALSE
    /\ pc' = "decode"
    /\ UNCHANGED <<next_grid, is_playing, filename, offset_x, offset_y,
                   clear_before, fpos, line, p, pattern_w, pattern_h,
                   header_found, obsVars>>
    /\ UNCHANGED <<runVars, music_paused>>
    /\ UNCHANGED auxVars

\* if (!header_found) rewind(f); if (clear_before) clear_screen(); and the
\* initialisation of the decode pass (main.c:414-426).
LoadBeginDecode ==
    /\ pc = "parse"
    /\ fpos' = IF header_found THEN fpos ELSE 0
    /\ grid' = IF clear_before THEN clear_screen(grid) ELSE grid
    /\ cur_x' = 0 /\ cur_y' = 0 /\ run' = 0 /\ done' = FALSE
    /\ pc' = "decode"
    /\ UNCHANGED <<next_grid, is_playing, filename, offset_x, offset_y,
                   clear_before, line, p, pattern_w, pattern_h, header_found,
                   obsVars>>
    /\ UNCHANGED <<runVars, music_paused>>
    /\ UNCHANGED auxVars

\* while (!done && fgets(line, sizeof(line), f)) { char *p = line;
LoadDecodeLine ==
    /\ pc = "decode"
    /\ ~done /\ fpos < Len(Content(filename))
    /\ line' = Content(filename)[fpos + 1]
    /\ fpos' = fpos + 1
    /\ p' = 1
    /\ pc' = "char"
    /\ UNCHANGED <<gridVars, filename, offset_x, offset_y, clear_before,
                   pattern_w, pattern_h, header_found, cur_x, cur_y, run, done,
                   obsVars>>
    /\ UNCHANGED <<runVars, music_paused>>
    /\ UNCHANGED auxVars

\* A plausible bug: the declared dimensions are enforced, a live cell at or
\* beyond the declared width or height is not stamped.
LoadDecodeChar_clipping ==
    /\ pc = "char"
    /\ IF p <= Len(line)
       THEN LET st == decode_char(DecodeState, line[p], offset_x, offset_y)
                beyond(x, y) == /\ pattern_w >= 0 /\ pattern_h >= 0
                                /\ \/ x - offset_x >= pattern_w
                                   \/ y - offset_y >= pattern_h
            IN  /\ grid' = [y \in Rows |-> [x \in Cols |->
                               IF beyond(x, y) THEN grid[y][x] ELSE st.grid[y][x]]]
                /\ cur_x' = st.cur_x /\ cur_y' = st.cur_y
                /\ run' = st.run /\ done' = st.done
                /\ consumed' = Append(consumed, line[p])
                /\ IF line[p] = "!"
                   THEN pc' = "decode" /\ p' = p
                   ELSE pc' = "char" /\ p' = p + 1
       ELSE /\ pc' = "decode"
            /\ UNCHANGED <<grid, cur_x, cur_y, run, done, consumed, p>>
    /\ UNCHANGED <<next_grid, is_playing, filename, offset_x, offset_y,
                   clear_before, fpos, line, pattern_w, pattern_h, header_found,
                   op, pre, origin, gen, oob, msg, ret, nev>>
    /\ UNCHANGED <<runVars, music_paused>>
    /\ UNCHANGED auxVars

\* One iteration of while (*p) { ... p++; }, or its exit at the end of the
\* line (main.c:431-460).
LoadDecodeChar ==
    /\ pc = "char"
    /\ IF p <= Len(line)
       THEN \E st \in {decode_char(DecodeState, line[p], offset_x, offset_y)} :
                /\ grid' = st.grid
                /\ cur_x' = st.cur_x /\ cur_y' = st.cur_y
                /\ run' = st.run /\ done' = st.done
                /\ consumed' = Append(consumed, line[p])
                /\ IF line[p] = "!"
                   THEN pc' = "decode" /\ p' = p
                   ELSE pc' = "char" /\ p' = p + 1
       ELSE /\ pc' = "decode"
            /\ UNCHANGED <<grid, cur_x, cur_y, run, done, consumed, p>>
    /\ UNCHANGED <<next_grid, is_playing, filename, offset_x, offset_y,
                   clear_before, fpos, line, pattern_w, pattern_h, header_found,
                   op, pre, origin, gen, oob, msg, ret, nev>>
    /\ UNCHANGED <<runVars, music_paused>>
    /\ UNCHANGED auxVars

\* The decode loop ends: fclose(f); fprintf(stdout, "Loaded RLE ..."); return.
LoadReturn ==
    /\ pc = "decode"
    /\ done \/ fpos >= Len(Content(filename))
    /\ msg' = "stdout"
    /\ ret' = "void"
    /\ pc' = "idle"
    /\ UNCHANGED <<gridVars, loadVars, op, pre, origin, gen, oob, consumed, nev>>
    /\ UNCHANGED <<runVars, music_paused>>
    /\ UNCHANGED auxVars

\* The grids load_rle is entered with below: empty, full, and one with five
\* live cells in its top-left 3x3 corner.
LoadGrids == {EmptyGrid, GridOf(Cols \X Rows),
              GridOf({<<1, 0>>, <<2, 1>>, <<0, 2>>, <<1, 2>>, <<2, 2>>})}

\* SpecLoad: one call load_rle(filename, offset_y, offset_x, clear_before)
\* followed from its entry to its return.  The parameters are ints; the
\* options window passes offsets inside the grid only (main.c:885-899), the
\* function itself takes any, so offsets one cell outside are included.
InitLoad ==
    \E g0 \in LoadGrids : \E fn \in FILES :
    \E ox \in -1 .. GRID_WIDTH : \E oy \in -1 .. GRID_HEIGHT : \E cb \in BOOLEAN :
        /\ grid = g0 /\ next_grid = EmptyGrid /\ is_playing = TRUE
        /\ pc = "entry"
        /\ filename = fn /\ offset_x = ox /\ offset_y = oy /\ clear_before = cb
        /\ fpos = 0 /\ line = <<>> /\ p = 1 /\ header_found = FALSE
        /\ pattern_w = -1 /\ pattern_h = -1
        /\ cur_x = 0 /\ cur_y = 0 /\ run = 0 /\ done = FALSE
        /\ op = <<"load_rle", fn, ox, oy, cb>> /\ pre = g0 /\ origin = g0
        /\ gen = 0 /\ oob = FALSE /\ consumed = <<>> /\ msg = "" /\ ret = "none" /\ nev = 0
        /\ NoRun

NextLoad ==
    \/ LoadOpen
    \/ LoadHeaderLine
    \/ LoadBeginDecode
    \/ LoadDecodeLine
    \/ LoadDecodeChar
    \/ LoadReturn

SpecLoad == InitLoad /\ [][NextLoad]_vars

\* ------------------------------------------------------------------------
\* game_events (main.c:1012-1090): the handlers that touch the grid
\* ------------------------------------------------------------------------

\* pause_background_music() and resume_background_music(): the value each
\* stores in music_paused (audio_manager.c:220-232).
pause_background_music == TRUE
resume_background_music == FALSE

\* The number of input events the model follows.
MaxEvents == 2

\* The length of the repeating pattern in the values rand() returns.
RandPeriod == 2

\* C integer division, which truncates toward zero (for b > 0).
CDiv(a, b) == IF a >= 0 THEN a \div b ELSE -((-a) \div b)

\* The cell at flat index idx of an array, !-negated.
FlipFlat(g, idx) ==
    [g EXCEPT ![idx \div GRID_WIDTH][idx % GRID_WIDTH] = BoolInt(@ = 0)]

\* A plausible bug: a click makes the cell alive instead of negating it.
toggle_sets_alive(g, ng, x_g, y_g) ==
    IF InGrid(x_g, y_g)
    THEN {[grid |-> [g EXCEPT ![y_g][x_g] = 1], next_grid |-> ng, oob |-> FALSE]}
    ELSE {[grid |-> g, next_grid |-> ng, oob |-> TRUE]}

\* grid[y_g][x_g] = !(grid[y_g][x_g]);  (main.c:1082), with no test of x_g
\* and y_g: the outcomes of the statement.  Inside the grid there is one.
\* Outside, the access is undefined behaviour; what a build does with it is
\* one of: the store lands on the int that lies at that distance from
\* grid[0][0], which is another cell of grid, or a cell of next_grid when
\* the linker places next_grid right after grid; or it lands on memory
\* that is neither array (or is optimised away) and both are left as they
\* were.
toggle(g, ng, x_g, y_g) ==
    IF InGrid(x_g, y_g)
    THEN {[grid |-> [g EXCEPT ![y_g][x_g] = BoolInt(@ = 0)],
           next_grid |-> ng, oob |-> FALSE]}
    ELSE LET cells == GRID_WIDTH * GRID_HEIGHT
             idx == y_g * GRID_WIDTH + x_g
         IN  {[grid |-> g, next_grid |-> ng, oob |-> TRUE]}
             \cup (IF idx >= 0 /\ idx < cells
                   THEN {[grid |-> FlipFlat(g, idx), next_grid |-> ng, oob |-> TRUE]}
                   ELSE {})
             \cup (IF idx >= cells /\ idx < 2 * cells
                   THEN {[grid |-> g, next_grid |-> FlipFlat(ng, idx - cells),
                          oob |-> TRUE]}
                   ELSE {})

\* The mouse positions of the model: the first and last pixel of the window
\* in each direction, the pixel just before and just after it, and one tile
\* before it.  A button pressed while the pointer is dragged out of the
\* window (SDL captures the mouse while a button is down) reports a position
\* outside the window.
MouseXs == {-TILE_SIZE, -1, 0, WINDOW_WIDTH - 1, WINDOW_WIDTH}
MouseYs == {-TILE_SIZE, -1, 0, WINDOW_HEIGHT - 1, WINDOW_HEIGHT}

\* What every handler does to the observation variables it does not set.
Handled ==
    /\ pc = "idle" /\ nev < MaxEvents
    /\ nev' = nev + 1
    /\ UNCHANGED <<pc, loadVars, runVars>>
    /\ UNCHANGED auxVars

\* Any operation but update_grid ends a series of update_grid calls.
SeriesEnds == gen' = 0 /\ origin' = grid'

\* case SDL_EVENT_MOUSE_BUTTON_DOWN  (main.c:1075-1085)
MouseClick ==
    \E mouseX \in MouseXs : \E mouseY \in MouseYs :
        LET x_g == CDiv(mouseX, TILE_SIZE)
            y_g == CDiv(mouseY, TILE_SIZE)
        IN  \E r \in toggle(grid, next_grid, x_g, y_g) :
                /\ Handled
                /\ grid' = r.grid /\ next_grid' = r.next_grid /\ oob' = r.oob
                /\ op' = <<"toggle", x_g, y_g>> /\ pre' = grid
                /\ SeriesEnds
                /\ UNCHANGED <<is_playing, music_paused, consumed, msg, ret>>

\* A plausible bug: C clears the grid but leaves the simulation and the
\* music running.
KeyC_keeps_playing ==
    /\ Handled
    /\ grid' = clear_screen(grid)
    /\ op' = <<"clear">> /\ pre' = grid /\ oob' = FALSE
    /\ SeriesEnds
    /\ UNCHANGED <<next_grid, is_playing, music_paused, consumed, msg, ret>>

\* case SDL_SCANCODE_C  (main.c:1031-1036)
KeyC ==
    /\ Handled
    /\ grid' = clear_screen(grid)
    /\ is_playing' = FALSE
    /\ music_paused' = pause_background_music
    /\ op' = <<"clear">> /\ pre' = grid /\ oob' = FALSE
    /\ SeriesEnds
    /\ UNCHANGED <<next_grid, consumed, msg, ret>>

\* The values rand() may return for the GRID_WIDTH * GRID_HEIGHT calls of
\* one grid_randomize(): here every sequence over 0..3 that repeats with
\* period RandPeriod.
RandDraws ==
    {[i \in 0 .. (GRID_WIDTH * GRID_HEIGHT - 1) |-> s[(i % RandPeriod) + 1]] :
        s \in [1 .. RandPeriod -> 0 .. 3]}

\* A plausible bug: the cells take the value of rand() itself.
grid_randomize_raw(draws) ==
    [y \in Rows |-> [x \in Cols |-> draws[y * GRID_WIDTH + x]]]

\* grid_randomize()  (main.c:307-313): grid[y][x] = rand() % 2, row by row.
grid_randomize(draws) ==
    [y \in Rows |-> [x \in Cols |-> draws[y * GRID_WIDTH + x] % 2]]

\* case SDL_SCANCODE_G  (main.c:1037-1040)
KeyG ==
    \E draws \in RandDraws :
        /\ Handled
        /\ grid' = grid_randomize(draws)
        /\ op' = <<"randomize">> /\ pre' = grid /\ oob' = FALSE
        /\ SeriesEnds
        /\ UNCHANGED <<next_grid, is_playing, music_paused, consumed, msg, ret>>

\* case SDL_SCANCODE_N  (main.c:1041-1046)
KeyN ==
    /\ Handled
    /\ IF ~is_playing
       THEN gen < MaxGen /\ update_grid
       ELSE /\ UNCHANGED <<grid, next_grid, consumed>>
            /\ op' = <<"key_n_ignored">> /\ pre' = grid /\ oob' = FALSE
            /\ SeriesEnds
    /\ UNCHANGED <<is_playing, music_paused, msg, ret>>

\* A plausible bug: SPACE toggles the simulation and leaves the music as it
\* is.
KeySpace_music_untouched ==
    /\ Handled
    /\ is_playing' = ~is_playing
    /\ UNCHANGED <<grid, next_grid, music_paused, consumed, msg, ret>>
    /\ op' = <<"space">> /\ pre' = grid /\ oob' = FALSE
    /\ SeriesEnds

\* case SDL_SCANCODE_SPACE  (main.c:1023-1030)
KeySpace ==
    /\ Handled
    /\ is_playing' = ~is_playing
    /\ music_paused' = IF is_playing' THEN resume_background_music
                                      ELSE pause_background_music
    /\ UNCHANGED <<grid, next_grid, consumed, msg, ret>>
    /\ op' = <<"space">> /\ pre' = grid /\ oob' = FALSE
    /\ SeriesEnds

\* The paths of case SDL_SCANCODE_1, _2 and _3  (main.c:1056-1064).
PatternPaths == {"patterns/glider.rle", "patterns/blinker.rle",
                 "patterns/gosper_glider_gun.rle"}

\* The offsets the options window is left with in the model: its buttons
\* move each offset between 0 and the last column or row (main.c:885-899,
\* where 29 and 26 are GRID_WIDTH - 1 and GRID_HEIGHT - 1).
OptionXs == {0, GRID_WIDTH - 1}
OptionYs == {0, GRID_HEIGHT - 1}

\* customize_preloaded_pattern(filename, ...)  (main.c:851-979): the options
\* window, and load_rle with its options if Apply was clicked.
PatternKey ==
    \E fn \in PatternPaths : \E ox \in OptionXs : \E oy \in OptionYs :
    \E clear \in BOOLEAN : \E confirmed \in BOOLEAN :
        /\ Handled
        /\ IF confirmed
           THEN LET r == load_rle(grid, fn, oy, ox, clear)
                IN  /\ grid' = r.grid /\ msg' = r.msg /\ ret' = r.ret
                    /\ op' = <<"load_rle", fn, ox, oy, clear>>
           ELSE /\ op' = <<"customize_closed">>
                /\ UNCHANGED <<grid, msg, ret>>
        /\ pre' = grid /\ oob' = FALSE
        /\ SeriesEnds
        /\ UNCHANGED <<next_grid, is_playing, music_paused, consumed>>

Init == InitWith(EmptyGrid)

Next ==
    \/ MouseClick
    \/ KeyC
    \/ KeyG
    \/ KeyN
    \/ KeySpace
    \/ PatternKey

Spec == Init /\ [][Next]_vars

\* ------------------------------------------------------------------------
\* game_run (main.c:1191-1212): the main loop, update_grid cell by cell
\* ------------------------------------------------------------------------
\* pc is "run" at the loop test, "fill" and "copy" inside the two loop nests
\* of update_grid, "events" before the call of game_events, "poll" inside
\* it after an event has been handled, "draw" before the call of game_draw
\* and "exit" after the loop.

\* The largest update_freq the loop is started with.
MaxFreq == 2

\* The input events of this specification: keys, and a click on the last
\* pixel of the window.
RunInputs ==
    {<<"key", k>> : k \in {"ESCAPE", "SPACE", "C", "N", "UP", "DOWN"}}
    \cup {<<"click", WINDOW_WIDTH - 1, WINDOW_HEIGHT - 1>>}

\* The program state the handlers of game_events work on.
GameState ==
    [grid |-> grid, next_grid |-> next_grid, is_playing |-> is_playing,
     is_running |-> is_running, update_freq |-> update_freq,
     music_paused |-> music_paused]

\* A plausible bug: N advances the grid whether the simulation is paused or
\* not.
handle_event_step_while_playing(s, ev) ==
    IF ev[1] = "click"
    THEN LET r == CHOOSE r \in toggle(s.grid, s.next_grid,
                                      CDiv(ev[2], TILE_SIZE), CDiv(ev[3], TILE_SIZE)) : TRUE
         IN  [s EXCEPT !.grid = r.grid, !.next_grid = r.next_grid]
    ELSE CASE ev[2] = "ESCAPE" -> [s EXCEPT !.is_running = FALSE]
           [] ev[2] = "SPACE" ->
                [s EXCEPT !.is_playing = ~@,
                          !.music_paused = IF ~s.is_playing THEN resume_background_music
                                                            ELSE pause_background_music]
           [] ev[2] = "C" ->
                [s EXCEPT !.grid = clear_screen(@), !.is_playing = FALSE,
                          !.music_paused = pause_background_music]
           [] ev[2] = "N" ->
                [s EXCEPT !.next_grid = next_generation(s.grid, @),
                          !.grid = copy_grid(next_generation(s.grid, s.next_grid))]
           [] ev[2] = "UP" ->
                IF s.update_freq > 1 THEN [s EXCEPT !.update_freq = @ - 1] ELSE s
           [] ev[2] = "DOWN" -> [s EXCEPT !.update_freq = @ + 1]

\* One iteration of while (SDL_PollEvent(&event)) for the event ev
\* (main.c:1014-1088).
handle_event(s, ev) ==
    IF ev[1] = "click"
    THEN LET r == CHOOSE r \in toggle(s.grid, s.next_grid,
                                      CDiv(ev[2], TILE_SIZE), CDiv(ev[3], TILE_SIZE)) : TRUE
         IN  [s EXCEPT !.grid = r.grid, !.next_grid = r.next_grid]
    ELSE CASE ev[2] = "ESCAPE" -> [s EXCEPT !.is_running = FALSE]
           [] ev[2] = "SPACE" ->
                [s EXCEPT !.is_playing = ~@,
                          !.music_paused = IF ~s.is_playing THEN resume_background_music
                                                            ELSE pause_background_music]
           [] ev[2] = "C" ->
                [s EXCEPT !.grid = clear_screen(@), !.is_playing = FALSE,
                          !.music_paused = pause_background_music]
           [] ev[2] = "N" ->
                IF ~s.is_playing
                THEN [s EXCEPT !.next_grid = next_generation(s.grid, @),
                               !.grid = copy_grid(next_generation(s.grid, s.next_grid))]
                ELSE s
           [] ev[2] = "UP" ->
                IF s.update_freq > 1 THEN [s EXCEPT !.update_freq = @ - 1] ELSE s
           [] ev[2] = "DOWN" -> [s EXCEPT !.update_freq = @ + 1]

\* A plausible bug: the counter is compared with > instead of >=.
RunIterate_one_frame_late ==
    /\ pc = "run" /\ is_running
    /\ LET c == IF is_playing THEN count + 1 ELSE count
       IN  IF c > update_freq
           THEN /\ count' = 0 /\ pc' = "fill" /\ updated' = TRUE
                /\ op' = <<"update_grid">> /\ pre' = grid
                /\ frames' = IF is_playing THEN 0 ELSE -1
           ELSE /\ count' = c /\ pc' = "events" /\ updated' = FALSE
                /\ frames' = IF frames >= 0 /\ is_playing THEN frames + 1 ELSE -1
                /\ UNCHANGED <<op, pre>>
    /\ UNCHANGED <<gridVars, loadVars, origin, gen, oob, consumed, msg, ret, nev,
                   is_running, update_freq, upos, seen, music_paused>>
    /\ UNCHANGED <<optVars, audioVars>>

\* while (g->is_running) { if (g->is_playing) count++;
\* if (count >= g->update_freq) { count = 0; update_grid(); }: up to the
\* entry of update_grid, or to the call of game_events without it.
RunIterate ==
    /\ pc = "run" /\ is_running
    /\ LET c == IF is_playing THEN count + 1 ELSE count
       IN  IF c >= update_freq
           THEN /\ count' = 0 /\ pc' = "fill" /\ updated' = TRUE
                /\ op' = <<"update_grid">> /\ pre' = grid
                /\ frames' = IF is_playing THEN 0 ELSE -1
           ELSE /\ count' = c /\ pc' = "events" /\ updated' = FALSE
                /\ frames' = IF frames >= 0 /\ is_playing THEN frames + 1 ELSE -1
                /\ UNCHANGED <<op, pre>>
    /\ UNCHANGED <<gridVars, loadVars, origin, gen, oob, consumed, msg, ret, nev,
                   is_running, update_freq, upos, seen, music_paused>>
    /\ UNCHANGED <<optVars, audioVars>>

\* The loop test fails: game_run returns.
RunStops ==
    /\ pc = "run" /\ ~is_running
    /\ pc' = "exit"
    /\ UNCHANGED <<gridVars, loadVars, obsVars, runVars, music_paused>>
    /\ UNCHANGED auxVars

\* A plausible bug: the frame is drawn from inside the copy loop of
\* update_grid, after each cell.
UpdateCopy_drawing ==
    /\ pc = "copy"
    /\ grid' = [grid EXCEPT ![upos \div GRID_WIDTH][upos % GRID_WIDTH] =
                                next_grid[upos \div GRID_WIDTH][upos % GRID_WIDTH]]
    /\ seen' = grid'
    /\ IF upos + 1 < GRID_WIDTH * GRID_HEIGHT
       THEN upos' = upos + 1 /\ pc' = "copy"
       ELSE upos' = 0 /\ pc' = "events"
    /\ UNCHANGED <<next_grid, is_playing, loadVars, obsVars, is_running,
                   update_freq, count, updated, music_paused>>
    /\ UNCHANGED auxVars

\* A plausible bug: the first loop nest starts over when it reaches the
\* last cell (its counter is reset instead of tested).
UpdateFill_starting_over ==
    /\ pc = "fill"
    /\ next_grid' = [next_grid EXCEPT ![upos \div GRID_WIDTH][upos % GRID_WIDTH] =
                        next_cell(grid, upos \div GRID_WIDTH, upos % GRID_WIDTH)]
    /\ upos' = (upos + 1) % (GRID_WIDTH * GRID_HEIGHT)
    /\ pc' = "fill"
    /\ UNCHANGED <<grid, is_playing, loadVars, obsVars, is_running,
                   update_freq, count, seen, updated, music_paused>>
    /\ UNCHANGED auxVars

\* One iteration of the inner loop of the first loop nest of update_grid
\* (main.c:343-353): next_grid[y][x] from grid.
UpdateFill ==
    /\ pc = "fill"
    /\ next_grid' = [next_grid EXCEPT ![upos \div GRID_WIDTH][upos % GRID_WIDTH] =
                        next_cell(grid, upos \div GRID_WIDTH, upos % GRID_WIDTH)]
    /\ IF upos + 1 < GRID_WIDTH * GRID_HEIGHT
       THEN upos' = upos + 1 /\ pc' = "fill"
       ELSE upos' = 0 /\ pc' = "copy"
    /\ UNCHANGED <<grid, is_playing, loadVars, obsVars, is_running,
                   update_freq, count, seen, updated, music_paused>>
    /\ UNCHANGED auxVars

\* One iteration of the inner loop of the second loop nest (main.c:355-359):
\* grid[y][x] = next_grid[y][x]; after the last one update_grid returns.
UpdateCopy ==
    /\ pc = "copy"
    /\ grid' = [grid EXCEPT ![upos \div GRID_WIDTH][upos % GRID_WIDTH] =
                                next_grid[upos \div GRID_WIDTH][upos % GRID_WIDTH]]
    /\ IF upos + 1 < GRID_WIDTH * GRID_HEIGHT
       THEN upos' = upos + 1 /\ pc' = "copy"
       ELSE upos' = 0 /\ pc' = "events"
    /\ UNCHANGED <<next_grid, is_playing, loadVars, obsVars, is_running,
                   update_freq, count, seen, updated, music_paused>>
    /\ UNCHANGED auxVars

\* game_events(g), one iteration of while (SDL_PollEvent(&event)): an
\* event is pending and its handler runs.
RunEvent ==
    /\ pc \in {"events", "poll"} /\ nev < MaxEvents
    /\ \E ev \in RunInputs :
          LET s == handle_event(GameState, ev)
          IN  /\ grid' = s.grid /\ next_grid' = s.next_grid
              /\ is_playing' = s.is_playing /\ is_running' = s.is_running
              /\ update_freq' = s.update_freq /\ music_paused' = s.music_paused
              /\ op' = ev
              /\ frames' = IF s.is_playing = is_playing /\ s.update_freq = update_freq
                            THEN frames ELSE -1
    /\ nev' = nev + 1
    /\ pc' = "poll"
    /\ UNCHANGED <<loadVars, pre, origin, gen, oob, consumed, msg, ret,
                   count, upos, seen, updated>>
    /\ UNCHANGED <<optVars, audioVars>>

\* SDL_PollEvent finds no event pending: game_events returns.
RunEventsDone ==
    /\ pc \in {"events", "poll"}
    /\ pc' = "draw"
    /\ UNCHANGED <<gridVars, loadVars, obsVars, runVars, music_paused>>
    /\ UNCHANGED auxVars

\* game_draw(g): draw_grid reads every cell of grid (main.c:1139-1157);
\* then SDL_Delay(16) and back to the loop test.
RunDraw ==
    /\ pc = "draw"
    /\ seen' = grid
    /\ pc' = "run"
    /\ UNCHANGED <<gridVars, loadVars, obsVars, is_running, update_freq, count,
                   upos, updated, music_paused>>
    /\ UNCHANGED auxVars

\* The grids the loop is started with: a line of three and a glider.
RunGrids == {GridOf({<<0, 1>>, <<1, 1>>, <<2, 1>>}),
             GridOf({<<1, 0>>, <<2, 1>>, <<0, 2>>, <<1, 2>>, <<2, 2>>})}

\* SpecRun: game_run from the top of an iteration.  game_new leaves
\* update_freq at 60 and the grid empty; the UP key and clicks bring the
\* program to the states the loop is followed from here.
InitRun ==
    \E g0 \in RunGrids : \E f \in 1 .. MaxFreq :
        /\ grid = g0 /\ next_grid = EmptyGrid /\ is_playing = TRUE
        /\ pc = "run"
        /\ NoLoad
        /\ op = <<"init">> /\ pre = g0 /\ origin = g0 /\ gen = 0
        /\ oob = FALSE /\ consumed = <<>> /\ msg = "" /\ ret = "none" /\ nev = 0
        /\ is_running = TRUE /\ update_freq = f /\ count = 0 /\ upos = 0
        /\ seen = <<>> /\ updated = FALSE /\ music_paused = FALSE
        /\ NoAux

NextRun ==
    \/ RunIterate
    \/ RunStops
    \/ UpdateFill
    \/ UpdateCopy
    \/ RunEvent
    \/ RunEventsDone
    \/ RunDraw

SpecRun == InitRun /\ [][NextRun]_vars

\* ------------------------------------------------------------------------
\* customize_preloaded_pattern (main.c:851-979): the options window
\* ------------------------------------------------------------------------
\* pc is "opt_enter" at the call, "opt_poll" inside while (SDL_PollEvent(&e))
\* with running true, "opt_stopped" inside it with running false, "opt_exit"
\* after while (running), and "idle" after the return.

\* What the user does in the options window, with the position of the
\* click where there is one: a click inside each button, a click on none,
\* a request to close the options window, and one to close another window.
OptInputs ==
    {[name |-> "x_plus", mx |-> 260, my |-> 90],
     [name |-> "x_minus", mx |-> 210, my |-> 90],
     [name |-> "y_plus", mx |-> 260, my |-> 130],
     [name |-> "y_minus", mx |-> 210, my |-> 130],
     [name |-> "clear_box", mx |-> 60, my |-> 180],
     [name |-> "apply", mx |-> 120, my |-> 240],
     [name |-> "elsewhere", mx |-> 300, my |-> 300],
     [name |-> "close", mx |-> 0, my |-> 0],
     [name |-> "close_other", mx |-> 0, my |-> 0]}

IsClick(e) == e.name \notin {"close", "close_other"}

\* The six tests of the SDL_EVENT_MOUSE_BUTTON_DOWN branch, in the order of
\* the code (main.c:885-908); 29 and 26 there are GRID_WIDTH - 1 and
\* GRID_HEIGHT - 1 of the 30x27 grid.
opt_x_plus(o, mx, my) ==
    IF mx > 250 /\ mx < 270 /\ my > 80 /\ my < 100 /\ o.offset_x < GRID_WIDTH - 1
    THEN [o EXCEPT !.offset_x = @ + 1] ELSE o

opt_x_minus(o, mx, my) ==
    IF mx > 200 /\ mx < 220 /\ my > 80 /\ my < 100 /\ o.offset_x > 0
    THEN [o EXCEPT !.offset_x = @ - 1] ELSE o

opt_y_plus(o, mx, my) ==
    IF mx > 250 /\ mx < 270 /\ my > 120 /\ my < 140 /\ o.offset_y < GRID_HEIGHT - 1
    THEN [o EXCEPT !.offset_y = @ + 1] ELSE o

opt_y_minus(o, mx, my) ==
    IF mx > 200 /\ mx < 220 /\ my > 120 /\ my < 140 /\ o.offset_y > 0
    THEN [o EXCEPT !.offset_y = @ - 1] ELSE o

opt_clear(o, mx, my) ==
    IF mx > 50 /\ mx < 70 /\ my > 170 /\ my < 190
    THEN [o EXCEPT !.clear = ~@] ELSE o

\* A plausible bug: any click below the check box confirms.
opt_apply_wide(o, mx, my) ==
    IF my > 220 THEN [o EXCEPT !.confirmed = TRUE] ELSE o

opt_apply(o, mx, my) ==
    IF mx > 80 /\ mx < 160 /\ my > 220 /\ my < 260
    THEN [o EXCEPT !.confirmed = TRUE] ELSE o

\* opts after a mouse button event at (mx, my).
options_click(o, mx, my) ==
    opt_apply(opt_clear(opt_y_minus(opt_y_plus(opt_x_minus(
        opt_x_plus(o, mx, my), mx, my), mx, my), mx, my), mx, my), mx, my)

\* Whether the event e sets running = false: a close request for this
\* window (main.c:877-879), or a click in the branch that sets
\* opts.confirmed (main.c:904-908).
stops_window(o, e) ==
    IF IsClick(e) THEN opt_apply([o EXCEPT !.confirmed = FALSE], e.mx, e.my).confirmed
    ELSE e.name = "close"

\* The call: TTF_Init or TTF_OpenFont fails and the function returns
\* (main.c:856-868), or the window opens.
OptEnter ==
    /\ pc = "opt_enter"
    /\ \/ pc' = "idle" /\ op' = <<"customize_failed">>
       \/ pc' = "opt_poll" /\ op' = op
    /\ UNCHANGED <<gridVars, loadVars, pre, origin, gen, oob, consumed, msg, ret,
                   nev, runVars, music_paused, auxVars>>

\* One iteration of while (SDL_PollEvent(&e)) in the options window.
OptEvent ==
    /\ pc \in {"opt_poll", "opt_stopped"}
    /\ \E e \in OptInputs :
          /\ opts' = IF IsClick(e) THEN options_click(opts, e.mx, e.my) ELSE opts
          /\ applied' = (applied \/ e.name = "apply")
          /\ pc' = IF stops_window(opts, e) THEN "opt_stopped" ELSE pc
    /\ UNCHANGED <<gridVars, loadVars, obsVars, runVars, music_paused, shown>>
    /\ UNCHANGED <<frames, audioVars>>

\* No event is pending: the window is rendered with the current options,
\* and while (running) is tested.
OptRender ==
    /\ pc \in {"opt_poll", "opt_stopped"}
    /\ shown' = opts
    /\ pc' = IF pc = "opt_poll" THEN "opt_poll" ELSE "opt_exit"
    /\ UNCHANGED <<gridVars, loadVars, obsVars, runVars, music_paused, opts, applied>>
    /\ UNCHANGED <<frames, audioVars>>

\* if (opts.confirmed) { load_rle(filename, opts.offset_y, opts.offset_x,
\* opts.clear); }  (main.c:973-977), and the return.
OptReturn ==
    /\ pc = "opt_exit"
    /\ IF opts.confirmed
       THEN LET r == load_rle(grid, filename, opts.offset_y, opts.offset_x, opts.clear)
            IN  /\ grid' = r.grid /\ msg' = r.msg /\ ret' = r.ret
                /\ op' = <<"load_rle", filename, opts.offset_x, opts.offset_y,
                           opts.clear>>
       ELSE /\ op' = <<"customize_closed">>
            /\ UNCHANGED <<grid, msg, ret>>
    /\ pc' = "idle"
    /\ UNCHANGED <<next_grid, is_playing, loadVars, pre, origin, gen, oob,
                   consumed, nev, runVars, music_paused, auxVars>>

\* SpecOptions: one call of customize_preloaded_pattern with one of the
\* three paths of game_events, on an empty or a non-empty grid.
InitOptions ==
    \E g0 \in {EmptyGrid, GridOf({<<1, 0>>, <<2, 1>>, <<0, 2>>, <<1, 2>>, <<2, 2>>})} :
    \E fn \in PatternPaths :
        /\ grid = g0 /\ next_grid = EmptyGrid /\ is_playing = TRUE
        /\ pc = "opt_enter"
        /\ filename = fn /\ offset_x = 0 /\ offset_y = 0 /\ clear_before = FALSE
        /\ fpos = 0 /\ line = <<>> /\ p = 1 /\ header_found = FALSE
        /\ pattern_w = -1 /\ pattern_h = -1
        /\ cur_x = 0 /\ cur_y = 0 /\ run = 0 /\ done = FALSE
        /\ op = <<"customize", fn>> /\ pre = g0 /\ origin = g0 /\ gen = 0
        /\ oob = FALSE /\ consumed = <<>> /\ msg = "" /\ ret = "none" /\ nev = 0
        /\ NoRun

NextOptions ==
    \/ OptEnter
    \/ OptEvent
    \/ OptRender
    \/ OptReturn

SpecOptions == InitOptions /\ [][NextOptions]_vars

\* ------------------------------------------------------------------------
\* SpecCalls: one call of load_rle from its entry to its return, and one
\* call of update_grid, on its own or on the grid the load has left, from
\* its entry to its return.  pc = "idle" is the caller's position after
\* load_rle has returned, pc = "events" the caller's position after
\* update_grid has returned (main.c:1207).
\* ------------------------------------------------------------------------

\* update_grid is called (main.c:1199-1202) on the grid load_rle has left.
UpdateCall ==
    /\ pc = "idle" /\ op[1] = "load_rle"
    /\ pc' = "fill"
    /\ upos' = 0
    /\ op' = <<"update_grid">> /\ pre' = grid
    /\ UNCHANGED <<gridVars, loadVars, origin, gen, oob, consumed, msg, ret,
                   nev, is_running, update_freq, count, seen, updated,
                   music_paused>>
    /\ UNCHANGED auxVars

\* update_grid entered with a grid of WindowGrids.
InitUpdate ==
    \E g0 \in WindowGrids :
        /\ grid = g0 /\ next_grid = EmptyGrid /\ is_playing = TRUE
        /\ pc = "fill"
        /\ NoLoad
        /\ op = <<"update_grid">> /\ pre = g0 /\ origin = g0 /\ gen = 0
        /\ oob = FALSE /\ consumed = <<>> /\ msg = "" /\ ret = "none"
        /\ nev = 0
        /\ NoRun

InitCalls == InitLoad \/ InitUpdate

NextCalls ==
    \/ LoadOpen
    \/ LoadHeaderLine
    \/ LoadBeginDecode
    \/ LoadDecodeLine
    \/ LoadDecodeChar
    \/ LoadReturn
    \/ UpdateCall
    \/ UpdateFill
    \/ UpdateCopy

\* The main thread is the only one that runs the two functions and nothing
\* suspends it inside them: a statement that can execute does.
SpecCalls == InitCalls /\ [][NextCalls]_vars /\ WF_vars(NextCalls)

\* ------------------------------------------------------------------------
\* The audio module (src/audio_manager.c): the calls the main thread makes
\* and the steps of music_loop_thread, interleaved.  The main thread is at
\* pc = "audio" between two calls, at "play_destroyed" inside
\* play_background_music after line 128, and at "join" inside
\* stop_background_music or shutdown_audio_system before SDL_WaitThread.
\* ------------------------------------------------------------------------

\* The number of audio_manager calls the model follows.
MaxCalls == 3

\* What no function of audio_manager.c and no step of its thread assigns.
audioFrame == <<gridVars, runVars, optVars, frames, offset_x, offset_y,
                clear_before, fpos, line, p, pattern_w, pattern_h,
                header_found, cur_x, cur_y, run, done, pre, origin, gen,
                oob, consumed, msg>>

IsOpen(id) == id # 0 /\ streams[id].open

\* A pointer to a stream that SDL_DestroyAudioStream has released.
Stale(id) == id # 0 /\ ~streams[id].open

\* Some music thread has not left music_loop_thread yet.
ThreadLive == \E t \in DOMAIN tpc : tpc[t] \notin {"returned", "joined"}

\* SDL_DestroyAudioStream(id)
destroy(ss, id) == [ss EXCEPT ![id].open = FALSE]

\* What destroying the music stream id does wrong, if anything.
destroy_notes(id) ==
    (IF Stale(id) THEN {"double_destroy"} ELSE {}) \cup
    (IF ThreadLive THEN {"destroy_under_thread"} ELSE {})

\* A stream as SDL_OpenAudioDeviceStream, SDL_PutAudioStreamData and
\* SDL_ResumeAudioStreamDevice leave it (audio_manager.c:148-156).
OpenedMusic == [open |-> TRUE, paused |-> FALSE, queued |-> 1]

\* (audio_manager.c:159-167)
OpenedSfx == [open |-> TRUE, paused |-> FALSE, queued |-> 0]

\* play_background_music, lines 125-128: the stream is destroyed and the
\* pointer still holds it.
AudioPlayBegin ==
    /\ pc = "audio" /\ nev < MaxCalls
    /\ \E fn \in {"assets/background.wav", "assets/missing.wav"} :
          /\ filename' = fn
          /\ op' = <<"play_background_music", fn>>
    /\ nev' = nev + 1
    /\ ret' = "none"
    /\ pc' = "play_destroyed"
    /\ IF music_stream # 0
       THEN /\ streams' = destroy(streams, music_stream)
            /\ misuse' = misuse \cup destroy_notes(music_stream)
       ELSE UNCHANGED <<streams, misuse>>
    /\ UNCHANGED <<audioFrame, requeued, music_paused, music_thread,
                   music_thread_running, music_stream, sfx_stream,
                   music_buffer, current_music_file, tpc, wavs, sfx_queued>>

\* play_background_music, lines 129-181.  SDL decides whether a device
\* stream can be opened and whether a thread can be created.
AudioPlayRest ==
    /\ pc = "play_destroyed"
    /\ pc' = "audio"
    /\ \E music_ok, sfx_ok, thread_ok \in BOOLEAN :
        LET m == Len(streams) + 1
        IN  IF filename \notin wavs \/ ~music_ok
            THEN \* lines 142-145 and 148-153
                 /\ music_stream' = 0 /\ music_buffer' = FALSE
                 /\ ret' = "false"
                 /\ UNCHANGED <<sfx_stream, streams, misuse,
                                current_music_file, music_thread_running,
                                music_thread, tpc, music_paused>>
            ELSE IF ~sfx_ok
            THEN \* lines 159-165: the new music stream is destroyed and
                 \* music_stream keeps pointing to it
                 /\ music_stream' = m /\ sfx_stream' = 0
                 /\ streams' = Append(streams,
                                      [OpenedMusic EXCEPT !.open = FALSE])
                 /\ misuse' = misuse \cup
                       (IF ThreadLive THEN {"destroy_under_thread"} ELSE {})
                 /\ music_buffer' = FALSE
                 /\ ret' = "false"
                 /\ UNCHANGED <<current_music_file, music_thread_running,
                                music_thread, tpc, music_paused>>
            ELSE \* lines 167-181
                 /\ music_stream' = m /\ sfx_stream' = m + 1
                 /\ streams' = streams \o <<OpenedMusic, OpenedSfx>>
                 /\ music_buffer' = TRUE
                 /\ current_music_file' = filename
                 /\ IF ~music_thread_running
                    THEN /\ music_thread_running' = TRUE
                         /\ IF thread_ok
                            THEN /\ tpc' = Append(tpc, "test")
                                 /\ music_thread' = Len(tpc) + 1
                            ELSE /\ music_thread' = 0
                                 /\ UNCHANGED tpc
                    ELSE UNCHANGED <<music_thread_running, music_thread, tpc>>
                 /\ music_paused' = FALSE
                 /\ ret' = "true"
                 /\ UNCHANGED misuse
    /\ UNCHANGED <<audioFrame, requeued, filename, op, nev, wavs, sfx_queued>>

\* stop_background_music, line 189, and shutdown_audio_system, line 88.
AudioStopBegin ==
    /\ pc = "audio" /\ nev < MaxCalls
    /\ \E fn \in {"stop_background_music", "shutdown_audio_system"} :
          op' = <<fn>>
    /\ nev' = nev + 1
    /\ ret' = "none"
    /\ music_thread_running' = FALSE
    /\ pc' = "join"
    /\ UNCHANGED <<audioFrame, requeued, filename, music_paused, music_thread,
                   music_stream, sfx_stream, music_buffer,
                   current_music_file, tpc, streams, wavs, sfx_queued,
                   misuse>>

\* A plausible bug: the thread is told to stop and is not waited for.
AudioStopRest_without_wait ==
    /\ pc = "join"
    /\ pc' = "audio"
    /\ tpc' = tpc
    /\ music_thread' = 0
    /\ LET notes == IF music_stream # 0
                    THEN (IF Stale(music_stream)
                          THEN {"double_destroy"} ELSE {}) \cup
                         (IF \E t \in DOMAIN tpc' :
                                 tpc'[t] \notin {"returned", "joined"}
                          THEN {"destroy_under_thread"} ELSE {})
                    ELSE {}
           s1 == IF music_stream # 0
                 THEN destroy(streams, music_stream) ELSE streams
           s2 == IF sfx_stream # 0 THEN destroy(s1, sfx_stream) ELSE s1
       IN  /\ streams' = s2
           /\ misuse' = misuse \cup notes
    /\ music_stream' = 0 /\ sfx_stream' = 0
    /\ music_buffer' = FALSE
    /\ current_music_file' = ""
    /\ music_paused' = FALSE
    /\ UNCHANGED <<audioFrame, requeued, filename, op, nev, ret,
                   music_thread_running, wavs, sfx_queued>>

\* stop_background_music, lines 190-213, and shutdown_audio_system, lines
\* 89-112, which are the same statements: SDL_WaitThread returns once the
\* thread has left music_loop_thread.
AudioStopRest ==
    /\ pc = "join"
    /\ music_thread # 0 => tpc[music_thread] = "returned"
    /\ pc' = "audio"
    /\ tpc' = IF music_thread # 0
              THEN [tpc EXCEPT ![music_thread] = "joined"] ELSE tpc
    /\ music_thread' = 0
    /\ LET notes == IF music_stream # 0
                    THEN (IF Stale(music_stream)
                          THEN {"double_destroy"} ELSE {}) \cup
                         (IF \E t \in DOMAIN tpc' :
                                 tpc'[t] \notin {"returned", "joined"}
                          THEN {"destroy_under_thread"} ELSE {})
                    ELSE {}
           s1 == IF music_stream # 0
                 THEN destroy(streams, music_stream) ELSE streams
           s2 == IF sfx_stream # 0 THEN destroy(s1, sfx_stream) ELSE s1
       IN  /\ streams' = s2
           /\ misuse' = misuse \cup notes
    /\ music_stream' = 0 /\ sfx_stream' = 0
    /\ music_buffer' = FALSE
    /\ current_music_file' = ""
    /\ music_paused' = FALSE
    /\ UNCHANGED <<audioFrame, requeued, filename, op, nev, ret,
                   music_thread_running, wavs, sfx_queued>>

\* pause_background_music doing the C key's whole handler (main.c:1032-1035),
\* clear_screen included.
AudioPause_clearing_grid ==
    /\ pc = "audio" /\ nev < MaxCalls
    /\ op' = <<"pause_background_music">>
    /\ nev' = nev + 1
    /\ ret' = "none"
    /\ music_paused' = pause_background_music
    /\ grid' = clear_screen(grid)
    /\ IF IsOpen(music_stream)
       THEN /\ streams' = [streams EXCEPT ![music_stream].paused = TRUE]
            /\ UNCHANGED misuse
       ELSE /\ misuse' = misuse \cup
                  (IF Stale(music_stream) THEN {"main_use"} ELSE {})
            /\ UNCHANGED streams
    /\ UNCHANGED <<next_grid, is_playing, runVars, optVars, frames, offset_x,
                   offset_y, clear_before, fpos, line, p, pattern_w,
                   pattern_h, header_found, cur_x, cur_y, run, done, pre,
                   origin, gen, oob, consumed, msg, requeued, pc, filename,
                   music_thread, music_thread_running, music_stream,
                   sfx_stream, music_buffer, current_music_file, tpc, wavs,
                   sfx_queued>>

\* pause_background_music (audio_manager.c:220-223)
AudioPause ==
    /\ pc = "audio" /\ nev < MaxCalls
    /\ op' = <<"pause_background_music">>
    /\ nev' = nev + 1
    /\ ret' = "none"
    /\ music_paused' = pause_background_music
    /\ IF IsOpen(music_stream)
       THEN /\ streams' = [streams EXCEPT ![music_stream].paused = TRUE]
            /\ UNCHANGED misuse
       ELSE /\ misuse' = misuse \cup
                  (IF Stale(music_stream) THEN {"main_use"} ELSE {})
            /\ UNCHANGED streams
    /\ UNCHANGED <<audioFrame, requeued, pc, filename, music_thread,
                   music_thread_running, music_stream, sfx_stream,
                   music_buffer, current_music_file, tpc, wavs, sfx_queued>>

\* resume_background_music (audio_manager.c:229-232)
AudioResume ==
    /\ pc = "audio" /\ nev < MaxCalls
    /\ op' = <<"resume_background_music">>
    /\ nev' = nev + 1
    /\ ret' = "none"
    /\ music_paused' = resume_background_music
    /\ IF IsOpen(music_stream)
       THEN /\ streams' = [streams EXCEPT ![music_stream].paused = FALSE]
            /\ UNCHANGED misuse
       ELSE /\ misuse' = misuse \cup
                  (IF Stale(music_stream) THEN {"main_use"} ELSE {})
            /\ UNCHANGED streams
    /\ UNCHANGED <<audioFrame, requeued, pc, filename, music_thread,
                   music_thread_running, music_stream, sfx_stream,
                   music_buffer, current_music_file, tpc, wavs, sfx_queued>>

\* play_sfx (audio_manager.c:244-262): what it returns and whether it has
\* queued the effect, given the loadable files w, the pointer sfx and
\* whether that stream is open.
play_sfx(w, fn, sfx, open) ==
    IF fn \notin w
    THEN [ret |-> "false", put |-> FALSE]
    ELSE [ret |-> "true", put |-> sfx # 0 /\ open]

AudioPlaySfx ==
    /\ pc = "audio" /\ nev < MaxCalls
    /\ \E fn \in {"assets/toggle.wav", "assets/missing.wav"} :
          LET r == play_sfx(wavs, fn, sfx_stream, IsOpen(sfx_stream))
          IN  /\ op' = <<"play_sfx", fn>>
              /\ ret' = r.ret
              /\ sfx_queued' = r.put
              /\ streams' = IF r.put
                            THEN [streams EXCEPT
                                    ![sfx_stream].queued = @ + 1,
                                    ![sfx_stream].paused = FALSE]
                            ELSE streams
    /\ nev' = nev + 1
    /\ UNCHANGED <<audioFrame, requeued, pc, filename, music_paused, music_thread,
                   music_thread_running, music_stream, sfx_stream,
                   music_buffer, current_music_file, tpc, wavs, misuse>>

\* music_loop_thread, line 43: the loop test.
ThreadTest ==
    /\ \E t \in DOMAIN tpc :
          /\ tpc[t] = "test"
          /\ tpc' = [tpc EXCEPT ![t] = IF music_thread_running
                                       THEN "check" ELSE "returned"]
    /\ UNCHANGED <<audioFrame, requeued, pc, filename, op, nev, ret, music_paused,
                   music_thread, music_thread_running, music_stream,
                   sfx_stream, music_buffer, current_music_file, streams,
                   wavs, sfx_queued, misuse>>

\* music_loop_thread, line 45.  What SDL_GetAudioStreamQueued answers for a
\* destroyed stream is not defined: either branch can follow.
ThreadCheck ==
    /\ \E t \in DOMAIN tpc :
          /\ tpc[t] = "check"
          /\ IF music_paused \/ music_stream = 0
             THEN /\ tpc' = [tpc EXCEPT ![t] = "delay"]
                  /\ UNCHANGED misuse
             ELSE IF IsOpen(music_stream)
             THEN /\ tpc' = [tpc EXCEPT ![t] =
                                IF streams[music_stream].queued = 0
                                THEN "load" ELSE "delay"]
                  /\ UNCHANGED misuse
             ELSE /\ \E to \in {"load", "delay"} :
                        tpc' = [tpc EXCEPT ![t] = to]
                  /\ misuse' = misuse \cup {"thread_use"}
    /\ UNCHANGED <<audioFrame, requeued, pc, filename, op, nev, ret, music_paused,
                   music_thread, music_thread_running, music_stream,
                   sfx_stream, music_buffer, current_music_file, streams,
                   wavs, sfx_queued>>

\* A music_loop_thread that reloads the file and frees the buffer without
\* putting it on the stream.
ThreadLoad_without_put ==
    /\ \E t \in DOMAIN tpc :
          /\ tpc[t] = "load"
          /\ tpc' = [tpc EXCEPT ![t] = "delay"]
    /\ UNCHANGED <<audioFrame, pc, filename, op, nev, ret, music_paused,
                   music_thread, music_thread_running, music_stream,
                   sfx_stream, music_buffer, current_music_file, streams,
                   wavs, sfx_queued, requeued, misuse>>

\* music_loop_thread, lines 51-58.
ThreadLoad ==
    /\ \E t \in DOMAIN tpc :
          /\ tpc[t] = "load"
          /\ tpc' = [tpc EXCEPT ![t] = "delay"]
    /\ IF current_music_file \in wavs /\ music_stream # 0
       THEN IF IsOpen(music_stream)
            THEN /\ streams' = [streams EXCEPT ![music_stream].queued = @ + 1]
                 /\ requeued' = TRUE
                 /\ UNCHANGED misuse
            ELSE /\ misuse' = misuse \cup {"thread_use"}
                 /\ UNCHANGED <<streams, requeued>>
       ELSE UNCHANGED <<streams, requeued, misuse>>
    /\ UNCHANGED <<audioFrame, pc, filename, op, nev, ret, music_paused,
                   music_thread, music_thread_running, music_stream,
                   sfx_stream, music_buffer, current_music_file, wavs,
                   sfx_queued>>

\* music_loop_thread, line 60.
ThreadDelay ==
    /\ \E t \in DOMAIN tpc :
          /\ tpc[t] = "delay"
          /\ tpc' = [tpc EXCEPT ![t] = "test"]
    /\ UNCHANGED <<audioFrame, requeued, pc, filename, op, nev, ret, music_paused,
                   music_thread, music_thread_running, music_stream,
                   sfx_stream, music_buffer, current_music_file, streams,
                   wavs, sfx_queued, misuse>>

\* The audio device plays one queued buffer of a stream to its end.
DevicePlays ==
    /\ \E i \in DOMAIN streams :
          /\ streams[i].open /\ ~streams[i].paused /\ streams[i].queued > 0
          /\ streams' = [streams EXCEPT ![i].queued = @ - 1]
    /\ UNCHANGED <<audioFrame, requeued, pc, filename, op, nev, ret, music_paused,
                   music_thread, music_thread_running, music_stream,
                   sfx_stream, music_buffer, current_music_file, tpc, wavs,
                   sfx_queued, misuse>>

\* The music file is removed from the disk while the program runs.
WavRemoved ==
    /\ current_music_file \in wavs
    /\ wavs' = wavs \ {current_music_file}
    /\ UNCHANGED <<audioFrame, requeued, pc, filename, op, nev, ret, music_paused,
                   music_thread, music_thread_running, music_stream,
                   sfx_stream, music_buffer, current_music_file, tpc,
                   streams, sfx_queued, misuse>>

\* The grids the audio calls are made over: the empty grid game_new calls
\* play_background_music over, and the grids a game leaves behind when
\* game_free calls stop_background_music and then shutdown_audio_system
\* (between the two calls the module's statics have their initial values).
AudioGrids == {EmptyGrid} \cup RunGrids

\* The program after init_audio_system (audio_manager.c:74-81), before
\* game_new calls play_background_music.
InitAudio ==
    /\ grid \in AudioGrids /\ next_grid = EmptyGrid /\ is_playing = FALSE
    /\ pc = "audio"
    /\ NoLoad
    /\ op = <<"init_audio_system">> /\ pre = EmptyGrid /\ origin = EmptyGrid
    /\ gen = 0 /\ oob = FALSE /\ consumed = <<>> /\ msg = ""
    /\ ret = "true" /\ nev = 0
    /\ NoRun

NextAudio ==
    \/ AudioPlayBegin
    \/ AudioPlayRest
    \/ AudioStopBegin
    \/ AudioStopRest
    \/ AudioPause
    \/ AudioResume
    \/ AudioPlaySfx
    \/ ThreadTest
    \/ ThreadCheck
    \/ ThreadLoad
    \/ ThreadDelay
    \/ DevicePlays
    \/ WavRemoved

SpecAudio == InitAudio /\ [][NextAudio]_vars

\* A music thread that can take a step of music_loop_thread takes it: the
\* operating system schedules the thread and SDL_Delay(50) returns.  Nothing
\* makes the main thread call the module again.
ThreadFairness ==
    /\ WF_vars(ThreadTest)
    /\ WF_vars(ThreadCheck)
    /\ WF_vars(ThreadLoad)
    /\ WF_vars(ThreadDelay)

SpecAudioFair == SpecAudio /\ ThreadFairness

\* ------------------------------------------------------------------------
\* Properties of update_grid and count_neighbours (checked under SpecStep)
\* ------------------------------------------------------------------------

\* The eight Moore-neighbourhood positions of (x, y) that lie inside the grid.
MooreInGrid(x, y) ==
    {c \in Cols \X Rows : c # <<x, y>> /\ c[1] - x \in {-1, 0, 1}
                                       /\ c[2] - y \in {-1, 0, 1}}

\* The number of live in-grid neighbours of (x, y) in g, counted as a set.
LiveAround(g, x, y) == Cardinality(MooreInGrid(x, y) \cap Live(g))

\* C1: after one update_grid() each cell is alive iff it was alive before the
\* call with exactly 2 or 3 live neighbours, or dead before the call with
\* exactly 3, every count taken in the grid as it was before the call.
C1_ConwayRuleFromSnapshot ==
    op[1] = "update_grid" =>
        \A y \in Rows : \A x \in Cols :
            /\ grid[y][x] \in {0, 1}
            /\ (grid[y][x] = 1) <=>
                  \/ pre[y][x] # 0 /\ LiveAround(pre, x, y) \in {2, 3}
                  \/ pre[y][x] = 0 /\ LiveAround(pre, x, y) = 3

\* C1 witness: one call in which a cell survived, a cell was born, a cell
\* died of four or more neighbours and a cell died of fewer than two.
C1_Witness ==
    /\ op[1] = "update_grid"
    /\ \E c \in Live(pre) : grid[c[2]][c[1]] = 1
    /\ \E c \in (Cols \X Rows) \ Live(pre) : grid[c[2]][c[1]] = 1
    /\ \E c \in Live(pre) : LiveAround(pre, c[1], c[2]) >= 4 /\ grid[c[2]][c[1]] = 0
    /\ \E c \in Live(pre) : LiveAround(pre, c[1], c[2]) < 2 /\ grid[c[2]][c[1]] = 0

\* C2: for every in-bounds cell, count_neighbours(y, x) is the number of live
\* cells among the Moore positions inside the grid, the cell itself excluded;
\* positions outside count as dead and never wrap, so the count is in 0..8
\* and a lone live cell at (0,0) has count 0.
C2_CountNeighboursClosedBoundary ==
    /\ \A y \in Rows : \A x \in Cols :
          /\ count_neighbours(grid, y, x) = LiveAround(grid, x, y)
          /\ count_neighbours(grid, y, x) \in 0 .. 8
    /\ Live(grid) = {<<0, 0>>} => count_neighbours(grid, 0, 0) = 0

\* C2 witness: a grid in which an inner cell has all eight neighbours alive
\* while the corner (0,0) counts only the three neighbours it has in the grid.
C2_Witness ==
    /\ \E y \in Rows : \E x \in Cols : count_neighbours(grid, y, x) = 8
    /\ grid[0][0] # 0
    /\ count_neighbours(grid, 0, 0) = 3

\* The 2x2 block of live cells whose top-left cell is (x, y).
Block(x, y) == {<<x, y>>, <<x + 1, y>>, <<x, y + 1>>, <<x + 1, y + 1>>}

IsBlock(g) == \E y \in 0 .. (GRID_HEIGHT - 2) : \E x \in 0 .. (GRID_WIDTH - 2) :
                  Live(g) = Block(x, y)

\* C7: a 2x2 block of live cells anywhere in the grid (against an edge, in a
\* corner), all other cells dead, is left unchanged by update_grid() and by
\* any number of further update_grid() calls.
C7_BlockIsStillLife ==
    (gen >= 1 /\ IsBlock(origin)) => grid = origin

\* C7 witness: the block in the bottom-right corner after the last call of
\* the series.
C7_Witness ==
    /\ gen = MaxGen
    /\ Live(origin) = Block(GRID_WIDTH - 2, GRID_HEIGHT - 2)
    /\ grid = origin

HLine(x, y) == {<<x - 1, y>>, <<x, y>>, <<x + 1, y>>}
VLine(x, y) == {<<x, y - 1>>, <<x, y>>, <<x, y + 1>>}

\* C8: when the only live cells are (x-1,y), (x,y), (x+1,y) and (x,y) is not
\* on the border, one update_grid() leaves exactly (x,y-1), (x,y), (x,y+1)
\* alive and a second one restores exactly the original three cells.
C8_BlinkerOscillates ==
    \A y \in 1 .. (GRID_HEIGHT - 2) : \A x \in 1 .. (GRID_WIDTH - 2) :
        Live(origin) = HLine(x, y) =>
            /\ gen = 1 => Live(grid) = VLine(x, y)
            /\ gen = 2 => Live(grid) = HLine(x, y)

\* C8 witness: the second call has restored a horizontal line.
C8_Witness ==
    /\ gen = 2
    /\ \E y \in 1 .. (GRID_HEIGHT - 2) : \E x \in 1 .. (GRID_WIDTH - 2) :
          Live(origin) = HLine(x, y) /\ Live(grid) = HLine(x, y)
          /\ Live(pre) = VLine(x, y)

\* ------------------------------------------------------------------------
\* Properties of load_rle (checked under SpecLoad; C4 under Spec, where one
\* load follows another)
\* ------------------------------------------------------------------------

\* The call followed step by step leaves the grid and the message that
\* load_rle, taken as one function of the grid, computes.
LoadStepsAgree ==
    (pc = "idle" /\ op[1] = "load_rle") =>
        /\ grid = load_rle(pre, op[2], op[4], op[3], op[5]).grid
        /\ msg = load_rle(pre, op[2], op[4], op[3], op[5]).msg
        /\ ret = load_rle(pre, op[2], op[4], op[3], op[5]).ret

Glider == {<<1, 0>>, <<2, 1>>, <<0, 2>>, <<1, 2>>, <<2, 2>>}

\* C4: loading "x = 3, y = 3" / "bo$2bo$3o!" at offset (0,0) into an
\* all-dead grid leaves exactly (1,0), (2,1), (0,2), (1,2), (2,2) alive, and
\* loading the same text again with clear_before true leaves the same set.
C4_GliderLoad ==
    (/\ pc = "idle" /\ op[1] = "load_rle"
     /\ Content(op[2]) = GliderText /\ op[3] = 0 /\ op[4] = 0
     /\ (pre = EmptyGrid \/ op[5])) => Live(grid) = Glider

\* C4 witness: the second of two input events loaded the text with
\* clear_before true into the grid the first load had left.
C4_Witness ==
    /\ pc = "idle" /\ op[1] = "load_rle" /\ nev = 2
    /\ Content(op[2]) = GliderText /\ op[3] = 0 /\ op[4] = 0 /\ op[5]
    /\ Live(pre) = Glider /\ Live(grid) = Glider
    /\ msg = "stdout"

\* C5: when the pattern source cannot be opened, load_rle leaves every grid
\* cell as it was before the call, for either value of clear_before.
C5_FailedOpenLeavesGrid ==
    (op[1] = "load_rle" /\ Content(op[2]) = NoFile) => grid = pre

\* C5 witness: a call with clear_before true on a grid with live cells has
\* returned after the failed fopen.
C5_Witness ==
    /\ pc = "idle" /\ op[1] = "load_rle" /\ Content(op[2]) = NoFile
    /\ op[5] /\ Live(pre) # {} /\ grid = pre /\ msg = "stderr"

\* The decode pass is about to examine the character c.
AtChar(c) == pc = "char" /\ p <= Len(line) /\ line[p] = c

\* C9: in the decode pass a live cell at cursor (cur_x, cur_y) is written to
\* (offset_x + cur_x, offset_y + cur_y) only when that position is inside
\* the grid; a cell outside is dropped, neither clipped to the edge nor
\* wrapped to another row or column, and the cursor advances by one for
\* each cell, dropped or not.
C9_LiveRunStampsInBoundsOnly ==
    [][(AtChar("o") \/ AtChar("O")) =>
          LET r == IF run = 0 THEN 1 ELSE run
          IN  /\ cur_x' = cur_x + r
              /\ cur_y' = cur_y
              /\ \A y \in Rows : \A x \in Cols :
                    grid'[y][x] =
                        IF y = offset_y + cur_y
                           /\ x - offset_x \in cur_x .. (cur_x + r - 1)
                        THEN 1 ELSE grid[y][x]]_vars

\* C9 witness: a live run has just gone past the right edge in a row that
\* is not the last: the cursor is beyond the edge, and the first cell of
\* the next row, where a wrapped cell would land, is still dead.
C9_Witness ==
    /\ pc = "char" /\ Len(consumed) > 0
    /\ consumed[Len(consumed)] \in {"o", "O"}
    /\ offset_x + cur_x > GRID_WIDTH
    /\ offset_y + cur_y \in 0 .. (GRID_HEIGHT - 2)
    /\ grid[offset_y + cur_y][GRID_WIDTH - 1] = 1
    /\ grid[offset_y + cur_y + 1][0] = 0

BangSeen == \E i \in 1 .. Len(consumed) : consumed[i] = "!"

\* C10: once the decode pass has read the first '!', parsing stops: no
\* character after it, on the same line or a later one, is examined or
\* changes the grid or the cursor.
C10_BangStopsParsing ==
    [][BangSeen => UNCHANGED <<grid, cur_x, cur_y, run, consumed>>]_vars

\* C10 witness: load_rle has returned after a '!' that was followed by more
\* text on its line and by another line.
C10_Witness ==
    /\ pc = "idle" /\ msg = "stdout" /\ BangSeen
    /\ consumed[Len(consumed)] = "!"
    /\ p < Len(line) /\ line[p] = "!"
    /\ fpos < Len(Content(filename))

\* The characters the decode pass takes as tokens with a count.
TokenChars == {"o", "O", "b", ".", "$"}

\* C11: in the decode pass consecutive decimal digits accumulate into the
\* pending count (run = run*10 + digit); a token character (o, O, b, '.',
\* '$') reached with no pending digits acts with count 1; after each token
\* run is 0; any other character, spaces and line breaks included, leaves
\* run as it is, and so does the step from one line to the next, so a count
\* and its token may be separated by such characters or by a line break.
C11_RunAccumulatesAndDefaults ==
    [][/\ (pc = "char" /\ p <= Len(line)) =>
             LET c == line[p]
             IN  /\ IsDigit(c) =>
                       /\ run' = run * 10 + DigitVal(c)
                       /\ UNCHANGED <<grid, cur_x, cur_y>>
                 /\ c \in TokenChars => run' = 0
                 /\ (c \in {"o", "O", "b", "."} /\ run = 0) =>
                       cur_x' = cur_x + 1 /\ cur_y' = cur_y
                 /\ (c = "$" /\ run = 0) => cur_y' = cur_y + 1
                 /\ (~IsDigit(c) /\ c \notin TokenChars) =>
                       UNCHANGED <<run, grid, cur_x, cur_y>>
       /\ (pc \in {"decode", "char"} /\ pc' \in {"decode", "char"}
           /\ ~(pc = "char" /\ p <= Len(line))) => run' = run]_vars

\* C11 witness: in the file without a header the '$' that follows "2" and a
\* line break has just skipped two rows, after a '$' without a count had
\* skipped one and the two digits of "12o" had filled the whole row 1.
C11_Witness ==
    /\ pc = "char" /\ Content(filename) = NoHeaderText
    /\ Len(consumed) >= 3
    /\ consumed[Len(consumed)] = "$"
    /\ consumed[Len(consumed) - 1] = "\n"
    /\ consumed[Len(consumed) - 2] = "2"
    /\ cur_y = 3 /\ cur_x = 0 /\ run = 0
    /\ offset_x = 0 /\ offset_y = 0 /\ pre = EmptyGrid
    /\ \A x \in Cols : grid[1][x] = 1

\* C12: a dead-cell token (b or '.') advances cur_x by the run count (1
\* without a count) and writes no grid cell; consequently load_rle with
\* clear_before false never turns a live cell dead: no step of it does, and
\* every cell alive before the call is alive when it returns.
C12_DeadRunWritesNothing ==
    [][/\ (AtChar("b") \/ AtChar(".")) =>
             /\ cur_x' = cur_x + (IF run = 0 THEN 1 ELSE run)
             /\ UNCHANGED <<grid, cur_y>>
       /\ ~clear_before => Live(grid) \subseteq Live(grid')
       /\ (~clear_before /\ pc' = "idle") => Live(pre) \subseteq Live(grid')]_vars

\* C12 witness: a call with clear_before false has returned; its "2b" ran
\* over the cell (1,0), alive before the call and still alive, and the call
\* has made other cells alive.
C12_Witness ==
    /\ pc = "idle" /\ msg = "stdout" /\ ~clear_before
    /\ Content(filename) = NoHeaderText /\ offset_x = 0 /\ offset_y = 0
    /\ \E i \in 2 .. Len(consumed) : consumed[i - 1] = "2" /\ consumed[i] = "b"
    /\ pre[0][1] = 1 /\ grid[0][1] = 1
    /\ Live(pre) \subseteq Live(grid) /\ Live(pre) # Live(grid)
    /\ Live(grid) # Cols \X Rows

\* C13: a '$' token advances cur_y by the run count (1 when no count
\* precedes it), sets cur_x to 0 and run to 0, and writes no grid cell.
C13_EndOfRow ==
    [][AtChar("$") =>
          /\ cur_y' = cur_y + (IF run = 0 THEN 1 ELSE run)
          /\ cur_x' = 0
          /\ run' = 0
          /\ grid' = grid]_vars

\* C13 witness: a '$' with the count 2 has just been decoded after one
\* without a count: three rows down, back in column 0 from column 12.
C13_Witness ==
    /\ pc = "char" /\ Len(consumed) >= 2
    /\ consumed[Len(consumed)] = "$"
    /\ \E i \in 1 .. (Len(consumed) - 1) :
          consumed[i] = "$" /\ (i = 1 \/ ~IsDigit(consumed[i - 1]))
    /\ cur_y = 3 /\ cur_x = 0 /\ run = 0
    /\ Live(grid) # {} /\ grid # pre

\* The pattern cells that the characters cs[i], cs[i+1], ... mark as alive,
\* relative to the pattern's top-left corner, for a cursor at column x of
\* row y and a pending count n (0: none).  Written from the RLE format, as
\* sets, without reference to the grid.
RECURSIVE PatternCells(_, _, _, _, _)
PatternCells(cs, i, x, y, n) ==
    IF i > Len(cs) THEN {}
    ELSE LET c == cs[i]
             k == IF n = 0 THEN 1 ELSE n
         IN  IF IsDigit(c) THEN PatternCells(cs, i + 1, x, y, n * 10 + DigitVal(c))
             ELSE IF c \in {"o", "O"}
                  THEN {<<x + j, y>> : j \in 0 .. (k - 1)}
                       \cup PatternCells(cs, i + 1, x + k, y, 0)
             ELSE IF c \in {"b", "."} THEN PatternCells(cs, i + 1, x + k, y, 0)
             ELSE IF c = "$" THEN PatternCells(cs, i + 1, 0, y + k, 0)
             ELSE PatternCells(cs, i + 1, x, y, n)

\* The in-bounds cells the current call of load_rle has stamped so far.
Stamped ==
    {c \in Cols \X Rows :
        <<c[1] - offset_x, c[2] - offset_y>> \in PatternCells(consumed, 1, 0, 0, 0)}

\* C14: when load_rle opens its source and clear_before is true, the grid is
\* cleared before any cell is stamped: from the start of the decode pass to
\* the return the live cells are exactly the in-bounds cells stamped by
\* this call so far, whatever the grid held before the call.
C14_ClearBeforeStamping ==
    (/\ op[1] = "load_rle" /\ clear_before /\ Content(filename) # NoFile
     /\ pc \in {"decode", "char", "idle"}) => Live(grid) = Stamped

\* C14 witness: a call with clear_before true on the full grid has returned
\* with some cells alive and some dead; cells of the pattern fell outside
\* the grid and were not stamped.
C14_Witness ==
    /\ pc = "idle" /\ msg = "stdout" /\ clear_before
    /\ Live(pre) = Cols \X Rows
    /\ Live(grid) = Stamped /\ Stamped # {} /\ Stamped # Cols \X Rows
    /\ Cardinality(PatternCells(consumed, 1, 0, 0, 0)) > Cardinality(Stamped)

\* The first character of l that is not white space ("" if there is none).
FirstChar(l) ==
    LET idx == {i \in 1 .. Len(l) : l[i] \notin {" ", "\t", "\n", "\r"}}
    IN  IF idx = {} THEN "" ELSE l[CHOOSE i \in idx : \A j \in idx : i <= j]

\* l qualifies as a header line: it does not start with '#' after leading
\* white space and contains x, = and y.
Qualifies(l) ==
    /\ FirstChar(l) # "#"
    /\ \A c \in {"x", "=", "y"} : \E i \in 1 .. Len(l) : l[i] = c

\* The number of the header line of file: its first qualifying line, 0 if
\* no line qualifies.
HeaderAt(file) ==
    LET idx == {i \in 1 .. Len(file) : Qualifies(file[i])}
    IN  IF idx = {} THEN 0 ELSE CHOOSE i \in idx : \A j \in idx : i <= j

\* The characters of the lines of file after the n-th, in order.
RECURSIVE TextAfter(_, _)
TextAfter(file, n) ==
    IF n >= Len(file) THEN <<>> ELSE file[n + 1] \o TextAfter(file, n + 1)

\* The decode pass has examined exactly the first characters of text.
DecodedPrefixOf(text) ==
    /\ Len(consumed) <= Len(text)
    /\ consumed = SubSeq(text, 1, Len(consumed))

\* The decode pass has begun (and perhaps ended) on an opened source.
Decoding ==
    /\ op[1] = "load_rle" /\ Content(filename) # NoFile
    /\ pc \in {"decode", "char", "idle"}

\* C15: when the source has a header line (the first line that, after
\* leading white space, does not start with '#' and contains x, = and y),
\* the decode pass starts at the line after it: what it decodes is a prefix
\* of the text after that line, so no character of the header line, of a
\* comment line before it or of any other line before it is decoded, and a
\* line starting with '#' is never taken as the header even if it contains
\* x, = and y.
C15_DecodeStartsAfterHeader ==
    (Decoding /\ HeaderAt(Content(filename)) > 0) =>
        /\ header_found
        /\ fpos >= HeaderAt(Content(filename))
        /\ DecodedPrefixOf(TextAfter(Content(filename), HeaderAt(Content(filename))))

\* C15 witness: the file whose header is its fourth line, after a comment
\* that contains x, = and y, an indented comment and a data line with an
\* 'o': the call has returned having decoded "3o!" and nothing else.
C15_Witness ==
    /\ pc = "idle" /\ msg = "stdout"
    /\ HeaderAt(Content(filename)) = 4
    /\ Content(filename)[1][1] = "#" /\ Qualifies(Tail(Content(filename)[1]))
    /\ consumed = <<"3", "o", "!">>
    /\ offset_x = 0 /\ offset_y = 0 /\ pre = EmptyGrid
    /\ Live(grid) = {<<0, 0>>, <<1, 0>>, <<2, 0>>}

\* C16: when no line of the source qualifies as a header, the read position
\* is reset to the start and the decode pass processes every line of the
\* source from the first one, lines that start with '#' included, whose
\* characters are decoded like any others: what it examines is the text of
\* the file from its first character, all of it unless a '!' ends it.
C16_NoHeaderDecodesFromStart ==
    (Decoding /\ HeaderAt(Content(filename)) = 0) =>
        /\ ~header_found
        /\ DecodedPrefixOf(TextAfter(Content(filename), 0))
        /\ pc = "idle" =>
              \/ consumed = TextAfter(Content(filename), 0)
              \/ Len(consumed) > 0 /\ consumed[Len(consumed)] = "!"

\* C16 witness: the file without a header has been decoded to its end; the
\* first characters examined were the '#' and the 'o' of its first line,
\* and that 'o' made the cell (0,0) alive.
C16_Witness ==
    /\ pc = "idle" /\ msg = "stdout"
    /\ HeaderAt(Content(filename)) = 0
    /\ consumed = TextAfter(Content(filename), 0)
    /\ consumed[1] = "#" /\ consumed[2] = "o"
    /\ offset_x = 0 /\ offset_y = 0 /\ pre = EmptyGrid
    /\ grid[0][0] = 1

\* f1 and f2 both have a header line, the same line in both, and differ at
\* most in the text of that line.
SameButHeader(f1, f2) ==
    /\ Len(f1) = Len(f2)
    /\ HeaderAt(f1) > 0 /\ HeaderAt(f2) = HeaderAt(f1)
    /\ \A i \in 1 .. Len(f1) : i # HeaderAt(f1) => f1[i] = f2[i]

\* C17: the dimensions declared in the header never influence the result:
\* a call that has returned leaves the grid that the same call leaves with
\* any source that differs only in the text of the recognised header line
\* (other, missing or unparsable numbers), and every in-bounds live cell of
\* the pattern is stamped, those at or beyond the declared width or height
\* like any others.
C17_DeclaredDimensionsIgnored ==
    (pc = "idle" /\ op[1] = "load_rle" /\ Content(filename) # NoFile) =>
        /\ \A fn2 \in FILES :
              SameButHeader(Content(filename), Content(fn2)) =>
                  grid = load_rle(pre, fn2, offset_y, offset_x, clear_before).grid
        /\ Live(grid) = (IF clear_before THEN {} ELSE Live(pre)) \cup Stamped

\* C17 witness: the glider under the header "x = 1, y = 1" has been loaded
\* at (0,0) into the empty grid: the width and height were parsed, all five
\* cells are alive, four of them beyond the declared 1x1, and three other
\* sources have the same text under a different header line.
C17_Witness ==
    /\ pc = "idle" /\ msg = "stdout"
    /\ pattern_w = 1 /\ pattern_h = 1
    /\ offset_x = 0 /\ offset_y = 0 /\ pre = EmptyGrid
    /\ Live(grid) = Glider
    /\ Cardinality({fn2 \in FILES :
                       /\ SameButHeader(Content(filename), Content(fn2))
                       /\ Content(fn2) # Content(filename)}) = 3

\* ------------------------------------------------------------------------
\* Properties of the handlers (checked under Spec)
\* ------------------------------------------------------------------------

\* C3: a toggle request whose cell coordinates fall outside the grid, such
\* as (-1,-1) or (GRID_WIDTH, GRID_HEIGHT), leaves every grid cell unchanged
\* and performs no access outside the grid array.
C3_OutOfBoundsToggleIgnored ==
    (op[1] = "toggle" /\ ~InGrid(op[2], op[3])) => (grid = pre /\ ~oob)

C19_ToggleFlipsOneCell ==
    [][(nev' = nev + 1 /\ op'[1] = "toggle" /\ InGrid(op'[2], op'[3])) =>
          /\ \A y \in Rows : \A x \in Cols :
                grid'[y][x] = IF <<x, y>> = <<op'[2], op'[3]>>
                              THEN (IF grid[y][x] = 0 THEN 1 ELSE 0)
                              ELSE grid[y][x]
          /\ ~oob'
          /\ op = op' => grid' = pre]_vars

\* C19 witness: the second of two clicks on the bottom-right cell, the
\* first of which had made it the only live cell, has left the grid empty
\* again.
C19_Witness ==
    /\ nev = 2 /\ op = <<"toggle", GRID_WIDTH - 1, GRID_HEIGHT - 1>>
    /\ Live(pre) = {<<GRID_WIDTH - 1, GRID_HEIGHT - 1>>}
    /\ grid = EmptyGrid /\ ~oob

\* C20: pressing C leaves every grid cell dead and sets is_playing
\* to false, whatever the grid and play state were before: the simulation
\* is paused and the background music is paused.
C20_ClearKills ==
    op[1] = "clear" =>
        /\ \A y \in Rows : \A x \in Cols : grid[y][x] = 0
        /\ ~is_playing
        /\ music_paused

\* C20 witness: C was pressed while the simulation was playing on a grid
\* with live cells.
C20_Witness ==
    /\ op[1] = "clear" /\ nev = 2 /\ Live(pre) # {}
    /\ Live(grid) = {} /\ ~is_playing /\ music_paused

\* ------------------------------------------------------------------------
\* Properties of game_run (checked under SpecRun)
\* ------------------------------------------------------------------------

\* The generation after g by the rule of the game, each count taken in g.
ConwayNext(g) ==
    [y \in Rows |-> [x \in Cols |->
        BoolInt(\/ g[y][x] # 0 /\ LiveAround(g, x, y) \in {2, 3}
                \/ g[y][x] = 0 /\ LiveAround(g, x, y) = 3)]]

\* The grid game_draw drew last, the grid the loop started with before the
\* first frame.
LastDrawn == IF seen = <<>> THEN origin ELSE seen

\* C18: no reader of the grid observes a partly computed generation: while
\* update_grid is in progress neither game_events handles an event nor
\* game_draw draws; game_events and game_draw are entered only when no
\* update_grid is in progress, and the grid game_events finds is the
\* complete next generation when update_grid ran in this iteration and the
\* grid of the previous frame when it did not, never a mixture.
C18_NoPartialGeneration ==
    [][/\ pc \in {"fill", "copy"} => UNCHANGED <<seen, nev>>
       /\ pc' \in {"events", "poll", "draw"} => upos' = 0
       /\ pc' = "events" =>
             grid' = IF updated' THEN ConwayNext(pre') ELSE LastDrawn']_vars

\* C18 witness: game_draw has drawn a generation that differs from the one
\* drawn before it in more than one cell, so the copy loop of update_grid
\* went through grids that were neither of the two.
C18_Witness ==
    /\ pc = "run" /\ updated /\ nev = 0
    /\ seen = ConwayNext(pre) /\ seen = grid
    /\ Cardinality({c \in Cols \X Rows : pre[c[2]][c[1]] # seen[c[2]][c[1]]}) > 1

\* C21: pressing N advances the grid by exactly one generation when the
\* simulation is paused (is_playing false) and leaves the grid unchanged
\* when it is playing.
C21_KeyNStepsOnlyWhenPaused ==
    [][(nev' = nev + 1 /\ op' = <<"key", "N">>) =>
          grid' = IF is_playing THEN grid ELSE ConwayNext(grid)]_vars

\* C21 witness: in the first frame SPACE paused the simulation and N then
\* advanced the grid the loop had started with by one generation, which
\* differs from it.
C21_Witness ==
    /\ pc = "poll" /\ op = <<"key", "N">> /\ nev = 2
    /\ ~is_playing /\ ~updated /\ seen = <<>>
    /\ grid = ConwayNext(origin) /\ grid # origin

\* C22: SPACE toggles is_playing and pauses or resumes the background
\* music accordingly, so that after game_new has succeeded and after every
\* fully handled input event (SPACE, C, any other key or click) the music
\* is paused exactly when the simulation is paused:
\* music_paused = not is_playing.
C22_MusicPausedIffNotPlaying ==
    pc = "idle" => (music_paused <=> ~is_playing)

\* C22 witness: SPACE has resumed the simulation and the music after an
\* earlier event had paused both.
C22_Witness ==
    /\ pc = "idle" /\ op[1] = "space" /\ nev = 2
    /\ is_playing /\ ~music_paused

\* ------------------------------------------------------------------------
\* Properties of customize_preloaded_pattern (checked under SpecOptions)
\* ------------------------------------------------------------------------

C23_ClosedWithoutApply ==
    /\ pc = "idle" /\ op = <<"customize_closed">> /\ ~applied
    /\ opts.offset_x = GRID_WIDTH - 1 /\ opts.clear /\ ~opts.confirmed
    /\ Live(pre) # {} /\ grid = pre

\* ------------------------------------------------------------------------
\* Properties of the frame counter of game_run (checked under SpecRun)
\* ------------------------------------------------------------------------

C29_PausedLoopNeverUpdates ==
    [][(pc = "run" /\ ~is_playing) => pc' # "fill"]_vars

\* ------------------------------------------------------------------------
\* Properties of the cell values (checked under Spec)
\* ------------------------------------------------------------------------

\* C27: the grid is all dead at startup, and after any sequence of
\* randomize, clear, toggle, step and pattern-load operations every cell
\* holds 0 or 1.
C27_CellsAreZeroOrOne ==
    /\ nev = 0 => grid = EmptyGrid
    /\ \A y \in Rows : \A x \in Cols : grid[y][x] \in {0, 1}

\* A randomize after a toggle has left both dead and live cells.
C27_Witness ==
    /\ pc = "idle" /\ nev = 2 /\ op = <<"randomize">>
    /\ Live(pre) # {}
    /\ \E y \in Rows : \E x \in Cols : grid[y][x] = 1
    /\ \E y \in Rows : \E x \in Cols : grid[y][x] = 0

\* ------------------------------------------------------------------------
\* Termination (checked under SpecCalls)
\* ------------------------------------------------------------------------

\* C28: load_rle terminates for every finite source text and every offset,
\* and update_grid terminates for every grid: a call that has been entered
\* returns.
C28_CallsTerminate ==
    /\ (pc = "entry") ~> (pc = "idle")
    /\ (pc \in {"fill", "copy"}) ~> (pc = "events")

\* load_rle has read a text of several lines to its end at an offset
\* outside the grid and returned, and update_grid has then run on the grid
\* it left and returned.
C28_Witness ==
    /\ pc = "events" /\ op = <<"update_grid">>
    /\ msg = "stdout" /\ fpos > 1 /\ Len(consumed) > 3
    /\ offset_x = -1 /\ offset_y = GRID_HEIGHT
    /\ grid = ConwayNext(pre)
    /\ next_grid = grid

\* ------------------------------------------------------------------------
\* Properties of the audio module (checked under SpecAudio)
\* ------------------------------------------------------------------------

\* C25: play_sfx returns true only when the sound effect was queued for
\* playback on the sound-effect stream, and false otherwise, also when the
\* file cannot be loaded or no sound-effect stream exists.
C25_SfxTrueOnlyWhenQueued ==
    (pc = "audio" /\ op[1] = "play_sfx") => (ret = "true" <=> sfx_queued)

\* The music thread is inside its loop and the flag keeps it there.
ThreadRunning ==
    /\ music_thread_running
    /\ music_thread # 0
    /\ tpc[music_thread] \notin {"returned", "joined"}

\* The conditions under which the music is to loop: the thread runs, the
\* music is not paused, the music file can be loaded, and there is a music
\* stream.
MusicLoopEnabled ==
    /\ ThreadRunning
    /\ ~music_paused
    /\ current_music_file \in wavs
    /\ IsOpen(music_stream)

MusicQueueEmpty == IsOpen(music_stream) /\ streams[music_stream].queued = 0

\* C26: background music loops: while the music thread is running, the
\* music is not paused and the music file can be loaded, an empty queue of
\* the music stream leads to the music being queued again (or to one of
\* these conditions ending first).
C26_MusicLoops ==
    (MusicLoopEnabled /\ MusicQueueEmpty) ~>
        (~MusicLoopEnabled \/ ~MusicQueueEmpty)

\* The thread has refilled the stream that the only call so far opened, and
\* the device has not played the refill yet.
C26_Witness ==
    /\ nev = 1 /\ pc = "audio" /\ op[1] = "play_background_music"
    /\ MusicLoopEnabled
    /\ requeued
    /\ streams[music_stream].queued = 1
    /\ tpc[music_thread] = "delay"

\* C30: for every sequence of audio_manager calls the music loop thread
\* never uses the music stream handle after that stream has been destroyed:
\* a stream is destroyed only when the thread is not running or has been
\* joined.
C30_ThreadNeverUsesDestroyedStream ==
    /\ "thread_use" \notin misuse
    /\ "destroy_under_thread" \notin misuse

\* C31: each audio stream is destroyed at most once: when the first call of
\* the module is play_background_music, whichever way it returns, and
\* stop_background_music follows it as in game_free, no stream handle that
\* was already destroyed is passed to SDL_DestroyAudioStream again.
C31_StreamsDestroyedOnce ==
    (pc = "audio" /\ nev = 2 /\ op = <<"stop_background_music">>) =>
        "double_destroy" \notin misuse

\* C32: after pause_background_music has returned and until
\* resume_background_music is called, the music loop thread queues no data
\* into the music stream: while the pause is the last call made, no step of
\* the thread changes what is queued on a stream.
C32_NothingQueuedWhilePaused ==
    [][(pc = "audio" /\ op = <<"pause_background_music">> /\ tpc' # tpc)
          => streams' = streams]_vars

\* The music threads that have been created and not yet joined.
ThreadsExisting == {t \in DOMAIN tpc : tpc[t] # "joined"}

\* C33: at most one music loop thread exists at any time, for every
\* sequence of play_background_music, stop_background_music and
\* shutdown_audio_system calls, and after stop or shutdown has returned no
\* music thread is running.
C33_AtMostOneMusicThread ==
    /\ Cardinality(ThreadsExisting) <= 1
    /\ (pc = "audio" /\ op[1] \in {"stop_background_music",
                                   "shutdown_audio_system"})
          => (ThreadsExisting = {} /\ music_thread = 0
              /\ ~music_thread_running)

\* The music has been started, stopped and started again: the first thread
\* has been joined and the second one runs.
C33_Witness ==
    /\ pc = "audio" /\ nev = 3 /\ op[1] = "play_background_music"
    /\ Len(tpc) = 2 /\ tpc[1] = "joined" /\ tpc[2] = "check"
    /\ music_thread = 2 /\ music_thread_running

\* C34: no function of audio_manager and no step of the music loop thread
\* writes grid or next_grid: over every sequence of audio calls interleaved
\* with the thread's steps, whatever grid the game holds, both arrays keep
\* their contents.
C34_AudioNeverTouchesGrid ==
    [][grid' = grid /\ next_grid' = next_grid]_vars

\* A game's grid after three audio calls, the last a play_sfx that queued
\* its data, with the thread having refilled the music stream in between.
C34_Witness ==
    /\ pc = "audio" /\ nev = MaxCalls /\ op[1] = "play_sfx"
    /\ sfx_queued /\ requeued
    /\ grid \in RunGrids /\ next_grid = EmptyGrid

====
